---- MODULE Spec2Model ----
(***************************************************************************)
(* A model of httpx-caching: the cache-control directive parser, the entry *)
(* codec (Serializer), the dict cache, the caching policy generator        *)
(* (try_from_cache_policy / try_from_server_policy / cache_response_action)*)
(* and the transport's io_handler that drives it.                          *)
(*                                                                         *)
(* Representation.  A header value, a body and a serialized entry are      *)
(* sequences of tokens (strings): the single characters the code looks at  *)
(* (",", "=", " ", "*", the decimal digits) are tokens of their own, any   *)
(* other run of characters ("max-age", "public", "v1") is one token.       *)
(* httpx.Headers is case-insensitive: header names are kept lower-cased,   *)
(* and a header map is a function from the names present to their values.  *)
(* Python's None for an optional header value is the value None below.     *)
(***************************************************************************)
EXTENDS Integers, Sequences, FiniteSets, TLC

VARIABLES
    cc_input,     \* SpecParse: the Cache-Control header value handed to the parser
    cc_result,    \* SpecParse: what parse_cache_control_directives returned for it
    phase,        \* SpecParse, SpecCodec: how far the function under check has got
    codec_request_headers, \* SpecCodec: the request headers given to dumps and loads
    codec_response,        \* SpecCodec: the response given to dumps
    codec_data,            \* SpecCodec: the serialized bytes
    codec_result,          \* SpecCodec: what loads returned
    now,             \* time.time(), in whole seconds
    cache_etags,     \* the transport's cache_etags option
    heuristic,       \* the transport's heuristic option: "none" or a heuristic class
    applied,         \* SpecApply: what heuristic.apply did to server_response.headers
    lock,            \* SpecThreads: SyncDictCache.lock, 0 for None, else a lock of locks
    locks,           \* SpecThreads: the locks created so far, each with its holder
    threads,         \* SpecThreads: the threads calling the transport, each with its position
    store,           \* SyncDictCache.data: cache key -> serialized entry
    streams,         \* the ByteStreamWrapper objects of responses handed to the caller
    pc,              \* where the caching_policy generator is suspended
    request,         \* the caller's request
    sent_request,    \* try_from_server_policy's request, with the conditional headers
    cached_response, \* what try_from_cache_policy returned (NoResponse for None)
    server_response, \* what MakeRequest returned
    yielded,         \* the action the generator is suspended on
    emitted,         \* the kinds of the actions yielded so far in this evaluation
    result,          \* what the transport's request() returned: response and source
    awaiting         \* SpecAsync: the driver is suspended in "await callback(yielded)"

(***************************************************************************)
(* Bounds of the model                                                     *)
(***************************************************************************)
MaxSegs == 2      \* comma-separated segments of an enumerated Cache-Control value
MaxTime == 1      \* the clock stops advancing here
MaxStreams == 1   \* responses the caller holds whose body it has not finished with
MaxCalls == 2     \* calls of request() one thread makes

(***************************************************************************)
(* Token helpers: str.split, str.strip, int()                              *)
(***************************************************************************)
None == <<"<None>">>

Digits == <<"0", "1", "2", "3", "4", "5", "6", "7", "8", "9">>

IsDigit(t) == \E i \in 1..Len(Digits) : Digits[i] = t

DigitVal(t) == (CHOOSE i \in 1..Len(Digits) : Digits[i] = t) - 1

RECURSIVE DecVal(_)
DecVal(s) == IF s = <<>> THEN 0
             ELSE 10 * DecVal(SubSeq(s, 1, Len(s) - 1)) + DigitVal(s[Len(s)])

RECURSIVE NumTok(_)
NumTok(n) == IF n < 10 THEN <<Digits[n + 1]>>
             ELSE NumTok(n \div 10) \o <<Digits[(n % 10) + 1]>>

AllDigits(s) == s # <<>> /\ \A i \in 1..Len(s) : IsDigit(s[i])

RECURSIVE Strip(_)
Strip(s) == IF s = <<>> THEN s
            ELSE IF Head(s) = " " THEN Strip(Tail(s))
            ELSE IF s[Len(s)] = " " THEN Strip(SubSeq(s, 1, Len(s) - 1))
            ELSE s

HasTok(s, t) == \E i \in 1..Len(s) : s[i] = t

FirstIdx(s, t) == CHOOSE i \in 1..Len(s) : s[i] = t /\ \A j \in 1..(i - 1) : s[j] # t

RECURSIVE Split(_, _)
Split(s, sep) ==
    IF HasTok(s, sep)
    THEN LET i == FirstIdx(s, sep)
         IN <<SubSeq(s, 1, i - 1)>> \o Split(SubSeq(s, i + 1, Len(s)), sep)
    ELSE <<s>>

Split1(s, sep) ==
    IF HasTok(s, sep)
    THEN LET i == FirstIdx(s, sep)
         IN <<SubSeq(s, 1, i - 1), SubSeq(s, i + 1, Len(s))>>
    ELSE <<s>>

RECURSIVE Concat(_)
Concat(s) == IF s = <<>> THEN "" ELSE Head(s) \o Concat(Tail(s))

RECURSIVE Join(_, _)
Join(parts, sep) ==
    IF parts = <<>> THEN <<>>
    ELSE IF Len(parts) = 1 THEN parts[1]
    ELSE parts[1] \o <<sep>> \o Join(Tail(parts), sep)

\* int(text): an optional sign and at least one digit, else ValueError.
IntOk(s) ==
    LET t == Strip(s)
    IN \/ AllDigits(t)
       \/ t # <<>> /\ Head(t) \in {"-", "+"} /\ AllDigits(Tail(t))

IntVal(s) ==
    LET t == Strip(s)
    IN IF Head(t) = "-" THEN 0 - DecVal(Tail(t))
       ELSE IF Head(t) = "+" THEN DecVal(Tail(t))
       ELSE DecVal(t)

(***************************************************************************)
(* parse_cache_control_directives                                          *)
(***************************************************************************)
IntDirectives == {"max-age", "max-stale", "min-fresh", "s-maxage"}

RequiredDirectives == {"max-age", "min-fresh", "s-maxage"}

FlagDirectives == {"no-cache", "no-store", "no-transform", "only-if-cached",
                   "must-revalidate", "public", "private", "proxy-revalidate"}

known_directives == IntDirectives \cup FlagDirectives

\* retval with retval[directive] = value
SetDirective(retval, directive, value) ==
    [d \in DOMAIN retval \cup {directive} |->
        IF d = directive THEN value ELSE retval[d]]

\* What the parser has come to: the directives so far, and the exception that
\* left it ("none" while it runs).
ParseOk(retval) == [raised |-> "none", retval |-> retval]

ParseRaised(exception, retval) == [raised |-> exception, retval |-> retval]

\* typ(parts[1].strip()) for typ = int: the integer, or the exception raised
IntOfPart(parts) ==
    IF Len(parts) < 2 THEN [raised |-> "IndexError", value |-> 0]
    ELSE IF ~IntOk(parts[2]) THEN [raised |-> "ValueError", value |-> 0]
    ELSE [raised |-> "none", value |-> IntVal(parts[2])]

OnlyIndexErrorCaught == {"IndexError"}

\* the except clauses around the conversion
CaughtByConversion == {"IndexError", "ValueError"}

\* One iteration of the loop over cc_headers.split(","): the directive set after
\* the segment cc_directive.  A value is <<n>> for the integer n, None for a flag.
ParseDirective(retval, cc_directive) ==
    IF Strip(cc_directive) = <<>> THEN ParseOk(retval)
    ELSE
      LET parts     == Split1(cc_directive, "=")
          directive == Concat(Strip(parts[1]))
      IN IF directive \notin known_directives THEN ParseOk(retval)
         ELSE
           LET typ      == directive \in IntDirectives
               required == directive \in RequiredDirectives
               flagged  == IF ~typ \/ ~required
                           THEN SetDirective(retval, directive, None)
                           ELSE retval
               int      == IntOfPart(parts)
           IN IF ~typ THEN ParseOk(flagged)
              ELSE IF int.raised = "none"
              THEN ParseOk(SetDirective(flagged, directive, <<int.value>>))
              ELSE IF int.raised \in CaughtByConversion THEN ParseOk(flagged)
              ELSE ParseRaised(int.raised, flagged)

\* the loop: an exception that leaves an iteration ends it
RECURSIVE ParseSegments(_, _)
ParseSegments(retval, segs) ==
    IF segs = <<>> THEN ParseOk(retval)
    ELSE LET step == ParseDirective(retval, Head(segs))
         IN IF step.raised # "none" THEN step
            ELSE ParseSegments(step.retval, Tail(segs))

\* The directives of a Cache-Control header value (<<>> when the header is absent).
ParseCacheControlValue(cc_headers) ==
    ParseSegments(<<>>, Split(cc_headers, ","))

(***************************************************************************)
(* httpx.Headers, Response                                                 *)
(***************************************************************************)
\* Every header name of the model, in the order raw header lists are written.
NameOrder == <<"", "*", "accept", "cache-control", "content-length", "date", "etag",
               "expires", "foo", "if-modified-since", "if-none-match",
               "last-modified", "transfer-encoding", "vary", "warning">>

\* headers.get(name, None)
HGet(headers, name) == IF name \in DOMAIN headers THEN headers[name] ELSE None

\* the header map holding name when value is given
Opt(name, value) == IF value = None THEN <<>> ELSE (name :> value)

\* headers.get(name, "")
HGetStr(headers, name) == IF name \in DOMAIN headers THEN headers[name] ELSE <<>>

\* headers.update(updates)
HUpdate(headers, updates) ==
    [n \in DOMAIN headers \cup DOMAIN updates |->
        IF n \in DOMAIN updates THEN updates[n] ELSE headers[n]]

\* headers.pop(name)
HPop(headers, name) == [n \in DOMAIN headers \ {name} |-> headers[n]]

NamesOf(f) == SelectSeq(NameOrder, LAMBDA n : n \in DOMAIN f)

\* Response(status_code, headers, stream, ext); a PlainByteStream holds its
\* bytes in _content, any other stream yields its chunks when iterated.
MkResponse(status_code, headers, plain, chunks, ext) ==
    [status_code |-> status_code, headers |-> headers,
     stream |-> [plain |-> plain, chunks |-> chunks], ext |-> ext]

RECURSIVE Flatten(_)
Flatten(ss) == IF ss = <<>> THEN <<>> ELSE Head(ss) \o Flatten(Tail(ss))

\* PlainByteStream(body)
PlainStream(body) == [plain |-> TRUE, chunks |-> <<body>>]

\* stream._content
StreamContent(stream) == Flatten(stream.chunks)

\* The names a Vary header value lists: value.split(","), each stripped.
VaryNames(value) ==
    LET parts == Split(value, ",")
    IN {Concat(Strip(parts[i])) : i \in 1..Len(parts)}

(***************************************************************************)
(* msgpack.  The packed form is a token stream in which every value is     *)
(* self-delimiting, as in msgpack: a tag, then a count or a length where   *)
(* the type has one, then the content.  A token that is no tag reads as a  *)
(* small integer, as most single bytes do in msgpack.  Unpacking yields a  *)
(* tree [k, atom, items]: k the type, atom the content of a scalar, items  *)
(* the elements of an array or the alternating keys and values of a map.   *)
(***************************************************************************)
PackNil == <<"nil">>

PackStr(s) == <<"str", ToString(Len(s))>> \o s

PackBin(b) == <<"bin", ToString(Len(b))>> \o b

PackInt(n) == <<"int", ToString(n)>>

PackOpt(v) == IF v = None THEN PackNil ELSE PackStr(v)

\* the vary dict: header name -> the request's value, or None
PackVary(vary) ==
    <<"map", ToString(Cardinality(DOMAIN vary))>>
    \o Flatten([i \in 1..Len(NamesOf(vary)) |->
                   PackStr(<<NamesOf(vary)[i]>>) \o PackOpt(vary[NamesOf(vary)[i]])])

\* Every key of response.ext, in the order the dict is written.
ExtOrder == <<"from_cache", "http_version", "real_request">>

ExtKeys(ext) == SelectSeq(ExtOrder, LAMBDA n : n \in DOMAIN ext)

PackExt(ext) ==
    <<"map", ToString(Cardinality(DOMAIN ext))>>
    \o Flatten([i \in 1..Len(ExtKeys(ext)) |->
                   PackStr(<<ExtKeys(ext)[i]>>) \o PackBin(ext[ExtKeys(ext)[i]])])

\* headers.raw: a list of (name, value) byte pairs
PackRawHeaders(headers) ==
    <<"arr", ToString(Cardinality(DOMAIN headers))>>
    \o Flatten([i \in 1..Len(NamesOf(headers)) |->
                   <<"arr", "2">> \o PackBin(<<NamesOf(headers)[i]>>)
                                  \o PackBin(headers[NamesOf(headers)[i]])])

Leaf(k, atom) == [k |-> k, atom |-> atom, items |-> <<>>]

Node(k, items) == [k |-> k, atom |-> <<>>, items |-> items]

Incomplete == [ok |-> FALSE, val |-> Leaf("nil", <<>>), rest |-> <<>>]

IsLen(t, s) == \E n \in 0..Len(s) : ToString(n) = t

LenOf(t, s) == CHOOSE n \in 0..Len(s) : ToString(n) = t

RECURSIVE UnpackOne(_), UnpackMany(_, _)
\* One value off the front of s: [ok, val, rest]; ok is FALSE where msgpack
\* raises for incomplete or malformed input.
UnpackOne(s) ==
    IF s = <<>> THEN Incomplete
    ELSE LET t == Head(s)
             r == Tail(s)
         IN CASE t = "nil" -> [ok |-> TRUE, val |-> Leaf("nil", <<>>), rest |-> r]
              [] t = "int" ->
                   IF r = <<>> THEN Incomplete
                   ELSE [ok |-> TRUE, val |-> Leaf("int", <<Head(r)>>), rest |-> Tail(r)]
              [] t \in {"str", "bin"} ->
                   IF r = <<>> \/ ~IsLen(Head(r), Tail(r)) THEN Incomplete
                   ELSE LET n == LenOf(Head(r), Tail(r))
                        IN [ok |-> TRUE, val |-> Leaf(t, SubSeq(r, 2, n + 1)),
                            rest |-> SubSeq(r, n + 2, Len(r))]
              [] t \in {"arr", "map"} ->
                   IF r = <<>> \/ ~IsLen(Head(r), Tail(r)) THEN Incomplete
                   ELSE LET n  == LenOf(Head(r), Tail(r))
                            m  == UnpackMany(Tail(r), IF t = "map" THEN 2 * n ELSE n)
                        IN IF m.ok
                           THEN [ok |-> TRUE, val |-> Node(t, m.vals), rest |-> m.rest]
                           ELSE Incomplete
              [] OTHER -> [ok |-> TRUE, val |-> Leaf("int", <<t>>), rest |-> r]

UnpackMany(s, n) ==
    IF n = 0 THEN [ok |-> TRUE, vals |-> <<>>, rest |-> s]
    ELSE LET one == UnpackOne(s)
         IN IF ~one.ok THEN [ok |-> FALSE, vals |-> <<>>, rest |-> <<>>]
            ELSE LET more == UnpackMany(one.rest, n - 1)
                 IN [ok |-> more.ok, vals |-> <<one.val>> \o more.vals, rest |-> more.rest]

\* msgpack.loads(data, raw=False): ok is FALSE for the ValueError it raises on
\* incomplete input, malformed input or extra data after the value.
MsgpackLoads(data) ==
    LET one == UnpackOne(data)
    IN [ok |-> one.ok /\ one.rest = <<>>, val |-> one.val]

\* mapping[key] on an unpacked map
MapHas(tree, key) ==
    \E i \in 1..(Len(tree.items) \div 2) :
        tree.items[2 * i - 1].k = "str" /\ tree.items[2 * i - 1].atom = <<key>>

\* the value unpacked last for a key wins, as in a dict
MapGet(tree, key) ==
    LET i == CHOOSE i \in 1..(Len(tree.items) \div 2) :
                 /\ tree.items[2 * i - 1].k = "str"
                 /\ tree.items[2 * i - 1].atom = <<key>>
                 /\ \A j \in (i + 1)..(Len(tree.items) \div 2) :
                        ~(tree.items[2 * j - 1].k = "str"
                          /\ tree.items[2 * j - 1].atom = <<key>>)
    IN tree.items[2 * i]

(***************************************************************************)
(* Serializer (src/httpx_caching/_serializer.py)                           *)
(***************************************************************************)
NoResponse == MkResponse(0, <<>>, TRUE, <<>>, <<>>)

\* What a load yields: outcome "ok" with a response, "miss" for None, or the
\* name of the exception that leaves the call.
Loaded(outcome, response, vary) ==
    [outcome |-> outcome, response |-> response, vary |-> vary]

Miss == Loaded("miss", NoResponse, <<>>)

Raise(exception) == Loaded(exception, NoResponse, <<>>)

Raised(outcome) == outcome \notin {"ok", "miss"}

\* b",".join([b"cc=0", msgpack.dumps(data, use_bin_type=True)]) for the data
\* dict of dumps; ext has lost "real_request".
EncodeEntry(response, vary, response_body) ==
    <<"c", "c", "=", "0">> \o <<",">>
    \o <<"map", "2">>
    \o PackStr(<<"response">>)
    \o ( <<"map", "4">>
         \o PackStr(<<"body">>) \o PackBin(response_body)
         \o PackStr(<<"headers">>) \o PackRawHeaders(response.headers)
         \o PackStr(<<"status_code">>) \o PackInt(response.status_code)
         \o PackStr(<<"ext">>) \o PackExt(HPop(response.ext, "real_request")) )
    \o PackStr(<<"vary">>) \o PackVary(vary)

\* The vary dict built from the response's Vary header and the request headers.
VaryFromHeaders(request_headers, response_headers) ==
    IF "vary" \in DOMAIN response_headers
    THEN [n \in VaryNames(response_headers["vary"]) |-> HGet(request_headers, n)]
    ELSE <<>>

\* Serializer.dumps(request_headers, response, response_body)
dumps(request_headers, response, response_body) ==
    EncodeEntry(response, VaryFromHeaders(request_headers, response.headers),
                response_body)

NonAscii == {"\\xff", "\\xe9"}

SplitVersionAtLastComma(data) ==
    LET commas == {i \in 1..Len(data) : data[i] = ","}
        last   == CHOOSE i \in commas : \A j \in commas : j <= i
        ver    == IF commas = {} THEN <<"c", "c", "=", "0">> ELSE SubSeq(data, 1, last - 1)
        parts  == Split1(ver, "=")
    IN [ver |-> parts[Len(parts)],
        data |-> IF commas = {} THEN data ELSE SubSeq(data, last + 1, Len(data))]

\* The version and the payload loads works on: [ver, data].
SplitVersion(data) ==
    LET split == IF HasTok(data, ",")
                 THEN [ver |-> Split1(data, ",")[1], data |-> Split1(data, ",")[2]]
                 ELSE [ver |-> <<"c", "c", "=", "0">>, data |-> data]
        fixed == IF SubSeq(split.ver, 1, 3) # <<"c", "c", "=">>
                 THEN [ver |-> <<"c", "c", "=", "0">>, data |-> split.ver \o split.data]
                 ELSE split
        parts == Split1(fixed.ver, "=")
    IN [ver |-> parts[Len(parts)], data |-> fixed.data]

\* Headers(raw) for an unpacked value: [ok, headers]
HeadersOfTree(tree) ==
    LET pairOk(p) == /\ p.k = "arr" /\ Len(p.items) = 2
                     /\ p.items[1].k \in {"bin", "str"} /\ Len(p.items[1].atom) = 1
                     /\ p.items[2].k \in {"bin", "str"}
    IN IF tree.k = "nil" THEN [ok |-> TRUE, headers |-> <<>>]
       ELSE IF tree.k = "arr" /\ \A i \in 1..Len(tree.items) : pairOk(tree.items[i])
       THEN [ok |-> TRUE,
             headers |-> [n \in {tree.items[i].items[1].atom[1] : i \in 1..Len(tree.items)} |->
                            LET i == CHOOSE i \in 1..Len(tree.items) :
                                         tree.items[i].items[1].atom[1] = n
                            IN tree.items[i].items[2].atom]]
       ELSE [ok |-> FALSE, headers |-> <<>>]

\* The dict an unpacked map of string keys and byte values stands for.
DictOfTree(tree) ==
    IF tree.k = "map"
    THEN [n \in {tree.items[2 * i - 1].atom[1] : i \in 1..(Len(tree.items) \div 2)} |->
            MapGet(tree, n).atom]
    ELSE <<>>

StatusCodes == {200, 203, 204, 300, 301, 304, 308, 404, 500}

StatusOf(token) ==
    IF \E c \in StatusCodes : ToString(c) = token
    THEN CHOOSE c \in StatusCodes : ToString(c) = token
    ELSE 0

\* The tail of prepare_response: the Response built from cached["response"],
\* without a "Transfer-Encoding: chunked" header.
ResponseOfTree(cached) ==
    IF ~MapHas(cached, "response") THEN Raise("KeyError")
    ELSE LET cached_entry == MapGet(cached, "response")
         IN IF cached_entry.k # "map" THEN Raise("TypeError")
            ELSE IF \E f \in {"status_code", "headers", "body", "ext"} :
                        ~MapHas(cached_entry, f)
            THEN Raise("KeyError")
            ELSE LET status_code == MapGet(cached_entry, "status_code")
                     headers     == HeadersOfTree(MapGet(cached_entry, "headers"))
                     body        == MapGet(cached_entry, "body")
                     ext         == MapGet(cached_entry, "ext")
                     stripped    == IF HGetStr(headers.headers, "transfer-encoding") = <<"chunked">>
                                    THEN HPop(headers.headers, "transfer-encoding")
                                    ELSE headers.headers
                 IN IF ~headers.ok \/ status_code.k # "int" THEN Raise("TypeError")
                    ELSE Loaded("ok",
                                [status_code |-> StatusOf(status_code.atom[1]),
                                 headers |-> stripped,
                                 stream |-> PlainStream(body.atom),
                                 ext |-> DictOfTree(ext)],
                                <<>>)

\* cached.get("vary", {}) as a dict: [ok, vary]; not ok where .get or .items
\* raises AttributeError.
VaryOfTree(cached) ==
    IF cached.k # "map" THEN [ok |-> FALSE, vary |-> <<>>]
    ELSE IF ~MapHas(cached, "vary") THEN [ok |-> TRUE, vary |-> <<>>]
    ELSE LET v == MapGet(cached, "vary")
         IN IF v.k # "map" THEN [ok |-> FALSE, vary |-> <<>>]
            ELSE [ok |-> TRUE,
                  vary |-> [n \in {v.items[2 * i - 1].atom[1] : i \in 1..(Len(v.items) \div 2)} |->
                              IF MapGet(v, n).k = "nil" THEN None ELSE MapGet(v, n).atom]]

\* Serializer.prepare_response(request_headers, cached)
prepare_response(request_headers, cached) ==
    LET v == VaryOfTree(cached)
    IN IF ~v.ok THEN Raise("AttributeError")
       ELSE IF \E n \in DOMAIN v.vary : HGet(request_headers, n) # v.vary[n] THEN Miss
       ELSE ResponseOfTree(cached)

\* Serializer._loads_v0(request_headers, data)
loads_v0(request_headers, data) ==
    LET cached == MsgpackLoads(data)
    IN IF ~cached.ok THEN Miss
       ELSE prepare_response(request_headers, cached.val)

\* Serializer.loads(request_headers, data)
loads(request_headers, data) ==
    IF data = <<>> THEN Miss
    ELSE LET v == SplitVersion(data)
         IN IF \E i \in 1..Len(v.ver) : v.ver[i] \in NonAscii
            THEN Raise("UnicodeDecodeError")
            ELSE IF v.ver # <<"0">> THEN Miss
            ELSE LET r == loads_v0(request_headers, v.data)
                 IN IF r.outcome = "AttributeError" THEN Miss ELSE r

(***************************************************************************)
(* The store-facing codec.  SyncDictCache calls                            *)
(* serializer.dumps(response, vary_header_data, response_body) and expects *)
(* serializer.loads(data) to return (response, vary_header_data), or       *)
(* (None, None) for a miss: the entry layout and the version handling are  *)
(* those of Serializer above, the vary data is stored and returned as      *)
(* given instead of being computed and checked inside the codec.           *)
(***************************************************************************)
StoreDumps(response, vary_header_data, response_body) ==
    EncodeEntry(response, vary_header_data, response_body)

StoreLoads(data) ==
    IF data = <<>> THEN Miss
    ELSE LET v == SplitVersion(data)
         IN IF \E i \in 1..Len(v.ver) : v.ver[i] \in NonAscii
            THEN Raise("UnicodeDecodeError")
            ELSE IF v.ver # <<"0">> THEN Miss
            ELSE LET cached == MsgpackLoads(v.data)
                     vary   == VaryOfTree(cached.val)
                     r      == ResponseOfTree(cached.val)
                 IN IF ~cached.ok \/ ~vary.ok THEN Miss
                    ELSE IF r.outcome = "ok" THEN Loaded("ok", r.response, vary.vary)
                    ELSE r

(***************************************************************************)
(* SyncDictCache (src/httpx_caching/_sync/_cache.py)                       *)
(***************************************************************************)
\* cache.get(key): serializer.loads(self.data.get(key, None))
cache_get(data, key) == StoreLoads(IF key \in DOMAIN data THEN data[key] ELSE <<>>)

cache_set_if_absent(data, key, response, vary_header_data, response_body) ==
    IF key \in DOMAIN data THEN data
    ELSE [k \in DOMAIN data \cup {key} |->
            IF k = key THEN StoreDumps(response, vary_header_data, response_body)
            ELSE data[k]]

\* cache.set(key, response, vary_header_data, response_body): the data afterwards
cache_set(data, key, response, vary_header_data, response_body) ==
    [k \in DOMAIN data \cup {key} |->
        IF k = key THEN StoreDumps(response, vary_header_data, response_body)
        ELSE data[k]]

\* cache.delete(key): the data afterwards
cache_delete(data, key) == [k \in DOMAIN data \ {key} |-> data[k]]

(***************************************************************************)
(* The caching policy (src/httpx_caching/_policy.py)                       *)
(***************************************************************************)
PERMANENT_REDIRECT_STATUSES == {301, 308}

PutOnly == {"PUT"}

INVALIDATING_METHODS == {"PUT", "PATCH", "DELETE"}

cacheable_methods == {"GET"}

cacheable_status_codes == {200, 203, 300, 301, 308}

Max(a, b) == IF a >= b THEN a ELSE b

is_client_error(status_code) == 400 <= status_code /\ status_code <= 499

\* httpx.codes.is_error
is_error(status_code) == 400 <= status_code /\ status_code <= 599

is_invalidating_method(method) == method \in INVALIDATING_METHODS

get_cache_key(req) == req.url

parse_cache_control_directives(headers) ==
    ParseCacheControlValue(HGetStr(headers, "cache-control")).retval

\* email.utils.parsedate_tz gives None for a value that is no date; a date is
\* written here as its time in seconds.
DateOk(value) == AllDigits(value)

DateVal(value) == DecVal(value)

check_no_headers(request_headers, cached_vary_data) == TRUE

check_vary_headers(request_headers, cached_vary_data) ==
    \A header \in DOMAIN cached_vary_data :
        HGet(request_headers, header) = cached_vary_data[header]

get_vary_headers(request_headers, response) ==
    IF "vary" \in DOMAIN response.headers
    THEN [header \in VaryNames(response.headers["vary"]) |->
            HGet(request_headers, header)]
    ELSE <<>>

update_with_all_304_headers(cached, new_response_headers) ==
    [cached EXCEPT !.headers = HUpdate(@, new_response_headers), !.status_code = 200]

update_with_304_response(cached, new_response_headers) ==
    LET excluded_headers == {"content-length"}
    IN [cached EXCEPT
          !.headers = HUpdate(@, [k \in DOMAIN new_response_headers \ excluded_headers |->
                                     new_response_headers[k]]),
          !.status_code = 200]

\* The actions of the I/O protocol, in one record shape.
NoRequest == [method |-> "", url |-> "", headers |-> <<>>]

IOAction(kind, key, response, vary, deferred, req) ==
    [kind |-> kind, key |-> key, response |-> response,
     vary_header_values |-> vary, deferred |-> deferred, request |-> req]

NoAction == IOAction("none", "", NoResponse, <<>>, FALSE, NoRequest)

CacheGet(key) == IOAction("CacheGet", key, NoResponse, <<>>, FALSE, NoRequest)

CacheDelete(key) == IOAction("CacheDelete", key, NoResponse, <<>>, FALSE, NoRequest)

CacheSet(key, response, vary, deferred) ==
    IOAction("CacheSet", key, response, vary, deferred, NoRequest)

MakeRequest(req) == IOAction("MakeRequest", "", NoResponse, <<>>, FALSE, req)

CloseResponseStream(response) ==
    IOAction("CloseResponseStream", "", response, <<>>, FALSE, NoRequest)

BypassesOnNoCacheOnly(req) ==
    \/ req.method \notin cacheable_methods
    \/ "no-cache" \in DOMAIN parse_cache_control_directives(req.headers)

\* try_from_cache_policy, the bail-out before the lookup
BypassesCache(req) ==
    LET cc == parse_cache_control_directives(req.headers)
    IN \/ req.method \notin cacheable_methods
       \/ "no-cache" \in DOMAIN cc
       \/ ("max-age" \in DOMAIN cc /\ cc["max-age"] = <<0>>)

IsFreshAtEqualAge(req, cached, t) ==
    LET resp_cc == parse_cache_control_directives(cached.headers)
    IN /\ "max-age" \in DOMAIN resp_cc
       /\ resp_cc["max-age"][1] > Max(0, t - DateVal(cached.headers["date"])) + 1

IsFreshByResponse(req, cached, t) ==
    LET cc          == parse_cache_control_directives(req.headers)
        date        == DateVal(cached.headers["date"])
        resp_cc     == parse_cache_control_directives(cached.headers)
        from_resp   == IF "max-age" \in DOMAIN resp_cc THEN resp_cc["max-age"][1]
                       ELSE IF "expires" \in DOMAIN cached.headers
                               /\ DateOk(cached.headers["expires"])
                       THEN Max(0, DateVal(cached.headers["expires"]) - date)
                       ELSE 0
        current_age == Max(0, t - date)
                       + (IF "min-fresh" \in DOMAIN cc THEN cc["min-fresh"][1] ELSE 0)
    IN from_resp > current_age

IsFreshByExpires(req, cached, t) ==
    LET cc          == parse_cache_control_directives(req.headers)
        date        == DateVal(cached.headers["date"])
        resp_cc     == parse_cache_control_directives(cached.headers)
        from_resp   == IF "expires" \in DOMAIN cached.headers
                          /\ DateOk(cached.headers["expires"])
                       THEN Max(0, DateVal(cached.headers["expires"]) - date)
                       ELSE IF "max-age" \in DOMAIN resp_cc THEN resp_cc["max-age"][1]
                       ELSE 0
        freshness_lifetime == IF "max-age" \in DOMAIN cc THEN cc["max-age"][1]
                              ELSE from_resp
        current_age == Max(0, t - date)
                       + (IF "min-fresh" \in DOMAIN cc THEN cc["min-fresh"][1] ELSE 0)
    IN freshness_lifetime > current_age

\* try_from_cache_policy from the freshness computation on: is the dated entry
\* fresh for this request at time t
IsFresh(req, cached, t) ==
    LET cc          == parse_cache_control_directives(req.headers)
        date        == DateVal(cached.headers["date"])
        resp_cc     == parse_cache_control_directives(cached.headers)
        from_resp   == IF "max-age" \in DOMAIN resp_cc THEN resp_cc["max-age"][1]
                       ELSE IF "expires" \in DOMAIN cached.headers
                               /\ DateOk(cached.headers["expires"])
                       THEN Max(0, DateVal(cached.headers["expires"]) - date)
                       ELSE 0
        freshness_lifetime == IF "max-age" \in DOMAIN cc THEN cc["max-age"][1]
                              ELSE from_resp
        current_age == Max(0, t - date)
                       + (IF "min-fresh" \in DOMAIN cc THEN cc["min-fresh"][1] ELSE 0)
    IN freshness_lifetime > current_age

EvaluateRedirectsByAge(req, got, t) ==
    IF got.outcome # "ok" THEN "NONE"
    ELSE IF ~check_vary_headers(req.headers, got.vary) THEN "NONE"
    ELSE IF "date" \notin DOMAIN got.response.headers
         THEN IF "etag" \notin DOMAIN got.response.headers THEN "PURGE_UNDATED"
              ELSE "INCONCLUSIVE"
    ELSE IF IsFresh(req, got.response, t) THEN "GOOD"
    ELSE IF "etag" \notin DOMAIN got.response.headers THEN "PURGE_STALE"
    ELSE "INCONCLUSIVE"

EvaluatePurgingMismatch(req, got, t) ==
    IF got.outcome # "ok" THEN "NONE"
    ELSE IF ~check_vary_headers(req.headers, got.vary) THEN "PURGE_STALE"
    ELSE IF got.response.status_code \in PERMANENT_REDIRECT_STATUSES THEN "GOOD"
    ELSE IF "date" \notin DOMAIN got.response.headers
         THEN IF "etag" \notin DOMAIN got.response.headers THEN "PURGE_UNDATED"
              ELSE "INCONCLUSIVE"
    ELSE IF ~DateOk(got.response.headers["date"]) THEN "RAISE"
    ELSE IF IsFresh(req, got.response, t) THEN "GOOD"
    ELSE IF "etag" \notin DOMAIN got.response.headers THEN "PURGE_STALE"
    ELSE "INCONCLUSIVE"

ConditionalHeadersETagOnly(request_headers, cached) ==
    IF cached = NoResponse \/ "etag" \notin DOMAIN cached.headers THEN request_headers
    ELSE HUpdate(request_headers, "if-none-match" :> cached.headers["etag"])

EvaluateByLastModified(req, got, t) ==
    IF got.outcome # "ok" THEN "NONE"
    ELSE IF ~check_vary_headers(req.headers, got.vary) THEN "NONE"
    ELSE IF got.response.status_code \in PERMANENT_REDIRECT_STATUSES THEN "GOOD"
    ELSE IF "date" \notin DOMAIN got.response.headers
         THEN IF {"etag", "last-modified"} \cap DOMAIN got.response.headers = {}
              THEN "PURGE_UNDATED"
              ELSE "INCONCLUSIVE"
    ELSE IF ~DateOk(got.response.headers["date"]) THEN "RAISE"
    ELSE IF IsFresh(req, got.response, t) THEN "GOOD"
    ELSE IF {"etag", "last-modified"} \cap DOMAIN got.response.headers = {}
         THEN "PURGE_STALE"
    ELSE "INCONCLUSIVE"

EvaluateRevalidatingFresh(req, got, t) ==
    IF got.outcome # "ok" THEN "NONE"
    ELSE IF ~check_vary_headers(req.headers, got.vary) THEN "NONE"
    ELSE IF got.response.status_code \in PERMANENT_REDIRECT_STATUSES THEN "GOOD"
    ELSE IF "date" \notin DOMAIN got.response.headers
         THEN IF "etag" \notin DOMAIN got.response.headers THEN "PURGE_UNDATED"
              ELSE "INCONCLUSIVE"
    ELSE IF ~DateOk(got.response.headers["date"]) THEN "RAISE"
    ELSE IF "etag" \in DOMAIN got.response.headers THEN "INCONCLUSIVE"
    ELSE IF IsFresh(req, got.response, t) THEN "GOOD"
    ELSE "PURGE_STALE"

EvaluateKeepingStale(req, got, t) ==
    IF got.outcome # "ok" THEN "NONE"
    ELSE IF ~check_vary_headers(req.headers, got.vary) THEN "NONE"
    ELSE IF got.response.status_code \in PERMANENT_REDIRECT_STATUSES THEN "GOOD"
    ELSE IF "date" \notin DOMAIN got.response.headers
         THEN IF "etag" \notin DOMAIN got.response.headers THEN "PURGE_UNDATED"
              ELSE "INCONCLUSIVE"
    ELSE IF ~DateOk(got.response.headers["date"]) THEN "RAISE"
    ELSE IF IsFresh(req, got.response, t) THEN "GOOD"
    ELSE "INCONCLUSIVE"

EvaluateKeepingUndated(req, got, t) ==
    IF got.outcome # "ok" THEN "NONE"
    ELSE IF ~check_vary_headers(req.headers, got.vary) THEN "NONE"
    ELSE IF got.response.status_code \in PERMANENT_REDIRECT_STATUSES THEN "GOOD"
    ELSE IF "date" \notin DOMAIN got.response.headers
         THEN IF "etag" \notin DOMAIN got.response.headers THEN "NONE"
              ELSE "INCONCLUSIVE"
    ELSE IF ~DateOk(got.response.headers["date"]) THEN "RAISE"
    ELSE IF IsFresh(req, got.response, t) THEN "GOOD"
    ELSE IF "etag" \notin DOMAIN got.response.headers THEN "PURGE_STALE"
    ELSE "INCONCLUSIVE"

\* try_from_cache_policy after the CacheGet: what it does with the entry got.
\* "NONE": ignore it; "GOOD": serve it; "INCONCLUSIVE": revalidate it;
\* "PURGE_UNDATED", "PURGE_STALE": yield CacheDelete; "RAISE": an exception.
Evaluate(req, got, t) ==
    IF got.outcome # "ok" THEN "NONE"
    ELSE IF ~check_vary_headers(req.headers, got.vary) THEN "NONE"
    ELSE IF got.response.status_code \in PERMANENT_REDIRECT_STATUSES THEN "GOOD"
    ELSE IF "date" \notin DOMAIN got.response.headers
         THEN IF "etag" \notin DOMAIN got.response.headers THEN "PURGE_UNDATED"
              ELSE "INCONCLUSIVE"
    ELSE IF ~DateOk(got.response.headers["date"]) THEN "RAISE"
    ELSE IF IsFresh(req, got.response, t) THEN "GOOD"
    ELSE IF "etag" \notin DOMAIN got.response.headers THEN "PURGE_STALE"
    ELSE "INCONCLUSIVE"

\* try_from_server_policy: the headers of the request it makes
ConditionalHeaders(request_headers, cached) ==
    IF cached = NoResponse THEN request_headers
    ELSE LET targets == {<<"etag", "if-none-match">>,
                         <<"last-modified", "if-modified-since">>}
             found   == {p \in targets : p[1] \in DOMAIN cached.headers}
         IN HUpdate(request_headers,
                    [target \in {p[2] : p \in found} |->
                        cached.headers[(CHOOSE p \in found : p[2] = target)[1]]])

cache_response_unless_cached(req, response, cache_exists, etags, status_codes) ==
    IF cache_exists \/ response.status_code \notin status_codes THEN NoAction
    ELSE CacheSet(get_cache_key(req), response,
                  get_vary_headers(req.headers, response), TRUE)

cache_response_deferring_redirects(req, response, cache_exists, etags, status_codes) ==
    LET cache_key == get_cache_key(req)
        cc_req    == parse_cache_control_directives(req.headers)
        cc        == parse_cache_control_directives(response.headers)
        no_store  == "no-store" \in DOMAIN cc \/ "no-store" \in DOMAIN cc_req
        deferred  == CacheSet(cache_key, response,
                              get_vary_headers(req.headers, response), TRUE)
    IN IF response.status_code \notin status_codes THEN NoAction
       ELSE IF no_store /\ cache_exists THEN CacheDelete(cache_key)
       ELSE IF no_store THEN NoAction
       ELSE IF HasTok(HGetStr(response.headers, "vary"), "*") THEN NoAction
       ELSE IF etags /\ "etag" \in DOMAIN response.headers THEN deferred
       ELSE IF response.status_code \in PERMANENT_REDIRECT_STATUSES THEN deferred
       ELSE IF "date" \in DOMAIN response.headers
            THEN IF "max-age" \in DOMAIN cc /\ cc["max-age"][1] > 0 THEN deferred
                 ELSE IF "expires" \in DOMAIN response.headers THEN deferred
                 ELSE NoAction
       ELSE NoAction

\* cache_response_action(request, server_response, cache_exists, cache_etags,
\* cacheable_status_codes): the action, or NoAction for None
cache_response_action(req, response, cache_exists, etags, status_codes) ==
    LET cache_key == get_cache_key(req)
        cc_req    == parse_cache_control_directives(req.headers)
        cc        == parse_cache_control_directives(response.headers)
        no_store  == "no-store" \in DOMAIN cc \/ "no-store" \in DOMAIN cc_req
        deferred  == CacheSet(cache_key, response,
                              get_vary_headers(req.headers, response), TRUE)
    IN IF response.status_code \notin status_codes THEN NoAction
       ELSE IF no_store /\ cache_exists THEN CacheDelete(cache_key)
       ELSE IF no_store THEN NoAction
       ELSE IF HasTok(HGetStr(response.headers, "vary"), "*") THEN NoAction
       ELSE IF etags /\ "etag" \in DOMAIN response.headers THEN deferred
       ELSE IF response.status_code \in PERMANENT_REDIRECT_STATUSES
            THEN LET redirect == [status_code |-> response.status_code,
                                  headers |-> response.headers,
                                  stream |-> PlainStream(<<>>),
                                  ext |-> <<>>]
                 IN CacheSet(cache_key, redirect,
                             get_vary_headers(req.headers, redirect), FALSE)
       ELSE IF "date" \in DOMAIN response.headers
            THEN IF "max-age" \in DOMAIN cc /\ cc["max-age"][1] > 0 THEN deferred
                 ELSE IF "expires" \in DOMAIN response.headers THEN deferred
                 ELSE NoAction
       ELSE NoAction

\* heuristic.apply not called
NotApplied == [headers |-> <<>>, warning_called |-> FALSE, exception |-> "none"]

NoResult == [response |-> NoResponse, source |-> "none", exception |-> "none"]

eval_vars == <<pc, request, sent_request, cached_response, server_response,
               yielded, emitted, result, awaiting>>

engine_vars == <<now, cache_etags, heuristic, store, streams, eval_vars>>

\* no evaluation in progress
EvalIdle ==
    /\ pc = "idle"
    /\ request = NoRequest
    /\ sent_request = NoRequest
    /\ cached_response = NoResponse
    /\ server_response = NoResponse
    /\ yielded = NoAction
    /\ emitted = <<>>
    /\ result = NoResult
    /\ awaiting = FALSE

\* a cache no thread has called
ThreadsIdle == /\ lock = 0
               /\ locks = <<>>
               /\ threads = <<>>

thread_vars == <<lock, locks, threads>>

\* a transport just constructed, with an empty DictCache
EngineIdle ==
    /\ now = 0
    /\ cache_etags = TRUE
    /\ heuristic = "none"
    /\ store = <<>>
    /\ streams = <<>>
    /\ ThreadsIdle
    /\ EvalIdle
    /\ applied = NotApplied

(***************************************************************************)
(* SpecParse: the parser applied to enumerated header values               *)
(***************************************************************************)
SegNames == {"max-age", "s-maxage", "max-stale", "public", "bogus-directive"}

SegValues == {<<>>, <<"=">>, <<"=", "abc">>, <<"=", "1">>, <<"=", " ", "-", "5">>}

Segments == {<<>>, <<" ">>}
            \cup {pre \o <<n>> \o v : pre \in {<<>>, <<" ">>}, n \in SegNames, v \in SegValues}

RECURSIVE SegLists(_)
SegLists(n) ==
    IF n = 0 THEN {<<>>}
    ELSE LET shorter == SegLists(n - 1)
         IN shorter \cup {l \o <<s>> : l \in {x \in shorter : Len(x) = n - 1}, s \in Segments}

ExampleHeader == <<"max-age", "=", "abc", ",", " ", "public", ",", " ",
                   "bogus-directive", "=", "1">>

ParseInputs == {Join(l, ",") : l \in SegLists(MaxSegs) \ {<<>>}} \cup {ExampleHeader}

CodecIdle == /\ codec_request_headers = <<>>
             /\ codec_response = NoResponse
             /\ codec_data = <<>>
             /\ codec_result = Miss

InitParse == /\ cc_input \in ParseInputs
             /\ cc_result = ParseOk(<<>>)
             /\ phase = "input"
             /\ CodecIdle
             /\ EngineIdle

codec_vars == <<codec_request_headers, codec_response, codec_data, codec_result>>

Parse == /\ phase = "input"
         /\ phase' = "parsed"
         /\ cc_result' = ParseCacheControlValue(cc_input)
         /\ UNCHANGED <<cc_input, codec_vars, thread_vars, applied, engine_vars>>

pure_vars == <<cc_input, cc_result, phase, codec_vars,
               thread_vars, applied>>

vars == <<pure_vars, engine_vars>>

NextParse == Parse

SpecParse == InitParse /\ [][NextParse]_vars

\* What one segment contributes on its own: nothing when its name is unknown
\* or it is a value-requiring directive without an integer value, else the
\* directive with its integer, or as a flag.
SegmentMeaning(seg) ==
    LET eq    == IF HasTok(seg, "=") THEN FirstIdx(seg, "=") ELSE 0
        name  == Concat(Strip(IF eq = 0 THEN seg ELSE SubSeq(seg, 1, eq - 1)))
        value == IF eq = 0 THEN <<>> ELSE SubSeq(seg, eq + 1, Len(seg))
    IN IF name \in FlagDirectives THEN name :> None
       ELSE IF name \in IntDirectives /\ eq # 0 /\ IntOk(value)
       THEN name :> <<IntVal(value)>>
       ELSE IF name \in IntDirectives \ RequiredDirectives THEN name :> None
       ELSE <<>>

\* the meanings of the segments put together, a later segment overriding
RECURSIVE MeaningOf(_)
MeaningOf(segs) ==
    IF segs = <<>> THEN <<>>
    ELSE HUpdate(MeaningOf(SubSeq(segs, 1, Len(segs) - 1)),
                 SegmentMeaning(segs[Len(segs)]))

\* C10: parse_cache_control_directives raises on no header value; its result is
\* the segments' own meanings put together, an unknown name or a value-requiring
\* directive without an integer value contributing nothing; and
\* "max-age=abc, public, bogus-directive=1" gives exactly {public}.
C10_ParseNeverFails ==
    phase = "parsed" =>
        /\ cc_result.raised = "none"
        /\ cc_result.retval = MeaningOf(Split(cc_input, ","))
        /\ cc_input = ExampleHeader => cc_result.retval = ("public" :> None)

C10_Witness ==
    /\ phase = "parsed"
    /\ cc_input = ExampleHeader
    /\ cc_result = ParseOk("public" :> None)

(***************************************************************************)
(* SpecCodec: Serializer.dumps and Serializer.loads on enumerated          *)
(* responses, and loads on enumerated stored bytes                         *)
(***************************************************************************)
CodecHeaders ==
    { Opt("cache-control", cc) @@ Opt("transfer-encoding", te)
      @@ Opt("vary", vary) @@ Opt("etag", etag) :
        cc   \in {None, <<"max-age", "=", "3", "6", "0", "0", ",", " ", "public">>},
        te   \in {None, <<"chunked">>, <<"gzip", ",", " ", "chunked">>},
        vary \in {None, <<"accept">>, <<"accept", ",", " ", "foo">>, <<"*">>},
        etag \in {None, <<"v1">>} }

CodecBodies == {<<>>, <<"b1">>, <<"b1", ",", "b2">>}

CodecExts == {<<>>, ("from_cache" :> <<"false">>),
              ("from_cache" :> <<"false">>) @@ ("real_request" :> <<"object">>)}

CodecResponses ==
    {MkResponse(sc, h, FALSE, <<b>>, e) :
        sc \in {200, 301}, h \in CodecHeaders, b \in CodecBodies, e \in CodecExts}

CodecRequestHeaders == {<<>>, ("accept" :> <<"text/plain">>),
                        ("accept" :> <<"text/plain", ",", " ", "text/html">>)
                        @@ ("foo" :> <<"a">>)}

SamplePayload ==
    LET r == MkResponse(200, ("date" :> <<"1">>) @@ ("vary" :> <<"accept">>),
                        TRUE, <<<<"b1", ",", "b2">>>>, <<>>)
        d == dumps(<<>>, r, StreamContent(r.stream))
    IN SubSeq(d, 6, Len(d))

StoredPrefixes == { <<"c", "c", "=", "0", ",">>, <<"c", "c", "=", "1", ",">>,
                    <<"c", "c", "=", "9", ",">>, <<"c", "c", "=", ",">>,
                    <<"c", "c", "=", "\\xff", ",">>, <<"x", "x", "=", "0", ",">>,
                    <<>> }

StoredPayloads ==
    {SubSeq(SamplePayload, 1, k) : k \in 0..Len(SamplePayload)}
    \cup { SamplePayload \o <<"x">>,
           <<"x">>, <<"nil">>, <<"arr", "0">>, <<"map", "0">>,
           <<"map", "1">> \o PackStr(<<"response">>) \o PackNil,
           <<"map", "1">> \o PackStr(<<"response">>) \o <<"map", "0">>,
           <<"map", "1">> \o PackStr(<<"vary">>) \o PackNil }

StoredData == {pre \o pay : pre \in StoredPrefixes, pay \in StoredPayloads}

InitCodec ==
    /\ EngineIdle
    /\ cc_input = <<>>
    /\ cc_result = ParseOk(<<>>)
    /\ codec_result = Miss
    /\ \/ /\ phase = "response"
          /\ codec_request_headers \in CodecRequestHeaders
          /\ codec_response \in CodecResponses
          /\ codec_data = <<>>
       \/ /\ phase = "stored"
          /\ codec_request_headers \in CodecRequestHeaders
          /\ codec_response = NoResponse
          /\ codec_data \in StoredData

\* data = serializer.dumps(request_headers, response, body)
Dump == /\ phase = "response"
        /\ phase' = "dumped"
        /\ codec_data' = dumps(codec_request_headers, codec_response,
                               StreamContent(codec_response.stream))
        /\ UNCHANGED <<cc_input, cc_result, codec_request_headers, codec_response,
                       codec_result, thread_vars, applied, engine_vars>>

\* serializer.loads(request_headers, data)
Load == /\ phase \in {"dumped", "stored"}
        /\ phase' = IF phase = "dumped" THEN "reloaded" ELSE "loaded"
        /\ codec_result' = loads(codec_request_headers, codec_data)
        /\ UNCHANGED <<cc_input, cc_result, codec_request_headers, codec_response,
                       codec_data, thread_vars, applied, engine_vars>>

NextCodec == Dump \/ Load

SpecCodec == InitCodec /\ [][NextCodec]_vars

(***************************************************************************)
(* Spec: the caching transport.  The caller makes requests one at a time   *)
(* (SyncCachingTransport.request), the origin server answers from a        *)
(* catalogue, the caller reads or drops the bodies it was handed, and the  *)
(* clock advances.  One step is one turn of the generator driver: the      *)
(* io_handler enacts the yielded action and the policy runs to its next    *)
(* yield or to its return.                                                 *)
(***************************************************************************)
Url == "http://example.org/a"

Methods == {"PUT", "PATCH", "DELETE", "POST"}

RequestHeaders ==
    { <<>>,
      "cache-control" :> <<"no-cache">>,
      "cache-control" :> <<"max-age", "=", "0">>,
      "cache-control" :> <<"max-age", "=", "1">>,
      "cache-control" :> <<"max-age", "=", "2">>,
      "cache-control" :> <<"min-fresh", "=", "1">>,
      "cache-control" :> <<"no-store">>,
      "accept" :> <<"text/plain">>,
      "accept" :> <<"text/html">> }

Requests ==
    { [method |-> "GET", url |-> Url, headers |-> h] : h \in RequestHeaders }
    \cup { [method |-> m, url |-> Url, headers |-> <<>>] : m \in Methods }

MaxAge == <<"max-age", "=", "1">>

Lazy(status_code, headers, chunks) == MkResponse(status_code, headers, FALSE, chunks, <<>>)

\* what the origin server may answer at time t to a request with this method
ServerResponses(t, method) ==
    LET date == "date" :> NumTok(t)
        cc   == "cache-control" :> MaxAge
        body == << <<"hello">> >>
    IN IF method \notin cacheable_methods
       THEN { Lazy(200, date @@ cc, body), Lazy(204, <<>>, <<>>),
              Lazy(404, <<>>, << <<"gone">> >>), Lazy(503, <<>>, <<>>) }
       ELSE
       { Lazy(200, date @@ cc, body),
         MkResponse(200, date @@ cc, TRUE, body, <<>>),
         Lazy(200, date @@ cc @@ ("transfer-encoding" :> <<"chunked">>),
              << <<"hel">>, <<"lo">> >>),
         Lazy(200, date @@ ("etag" :> <<"v1">>), body),
         Lazy(200, date @@ ("etag" :> <<"v2">>), << <<"world">> >>),
         Lazy(200, date @@ cc @@ ("vary" :> <<"accept">>), body),
         Lazy(200, date @@ cc @@ ("vary" :> <<"if-none-match">>), body),
         Lazy(200, date @@ cc @@ ("vary" :> <<"*">>), body),
         Lazy(200, <<>>, body),
         Lazy(200, date @@ ("cache-control" :> <<"no-store">>), body),
         Lazy(301, date @@ cc, << <<"moved">> >>),
         Lazy(301, date @@ ("etag" :> <<"v1">>), << <<"moved">> >>),
         Lazy(308, <<>>, << <<"moved">> >>),
         Lazy(304, date @@ cc @@ ("etag" :> <<"v1">>)
                   @@ ("content-length" :> <<"0">>), <<>>),
         Lazy(304, date @@ cc @@ ("etag" :> <<"v1">>) @@ ("vary" :> <<"*">>), <<>>),
         Lazy(404, <<>>, << <<"gone">> >>) }

\* what self.transport.request may raise instead of answering
TransportErrors == {"ConnectError", "ReadTimeout"}

Init ==
    /\ now = 0
    /\ cache_etags \in BOOLEAN
    /\ heuristic = "none"
    /\ store = <<>>
    /\ streams = <<>>
    /\ ThreadsIdle
    /\ EvalIdle
    /\ cc_input = <<>>
    /\ cc_result = ParseOk(<<>>)
    /\ phase = "engine"
    /\ CodecIdle
    /\ applied = NotApplied

YieldWithoutWaiting(point, action) ==
    /\ pc' = point
    /\ yielded' = action
    /\ emitted' = emitted \o <<action.kind, action.kind>>
    /\ UNCHANGED result
    /\ awaiting' = FALSE

\* the generator yields action and is suspended at point; the driver that got
\* it here has the result of the action before, so it awaits nothing
Yield(point, action) ==
    /\ pc' = point
    /\ yielded' = action
    /\ emitted' = Append(emitted, action.kind)
    /\ UNCHANGED result
    /\ awaiting' = FALSE

WithExtAsIs(response, source) == response

\* response.ext["from_cache"] = source == Source.CACHE
WithFromCache(response, source) ==
    [response EXCEPT !.ext = HUpdate(@, "from_cache" :>
                                 <<IF source = "CACHE" THEN "true" ELSE "false">>)]

\* the generator returns (response, source) and request() hands the response
\* to the caller
ReturnWith(response, source) ==
    /\ pc' = "returned"
    /\ yielded' = NoAction
    /\ emitted' = emitted
    /\ result' = [response |-> WithFromCache(response, source), source |-> source,
                  exception |-> "none"]
    /\ awaiting' = FALSE

RetryOnException(exception) ==
    /\ pc' = "L291"
    /\ yielded' = yielded
    /\ emitted' = Append(emitted, yielded.kind)
    /\ UNCHANGED result
    /\ awaiting' = FALSE

\* an exception leaves request()
RaiseOut(exception) ==
    /\ pc' = "raised"
    /\ yielded' = NoAction
    /\ emitted' = emitted
    /\ result' = [response |-> NoResponse, source |-> "none", exception |-> exception]
    /\ awaiting' = FALSE

\* try_from_server_policy up to its MakeRequest
StartPhaseB(req, cached) ==
    /\ cached_response' = cached
    /\ sent_request' = [req EXCEPT !.headers = ConditionalHeaders(req.headers, cached)]
    /\ Yield("L291", MakeRequest(sent_request'))

\* ExpiresAfterHeuristic(days=1), in the model's unit of time
ExpiresAfterDelta == 1

\* LastModifiedHeuristic.cacheable_by_default_statuses
cacheable_by_default_statuses == {200, 203, 204, 206, 300, 301, 404, 405, 410, 414, 501}

ReachesDatesAnyStatus(response_headers, response_status) ==
    /\ "expires" \notin DOMAIN response_headers
    /\ ~("cache-control" \in DOMAIN response_headers
         /\ response_headers["cache-control"] # <<"public">>)
    /\ "date" \in DOMAIN response_headers
    /\ "last-modified" \in DOMAIN response_headers

\* LastModifiedHeuristic.update_headers has got as far as parsing the dates
ReachesDates(response_headers, response_status) ==
    /\ "expires" \notin DOMAIN response_headers
    /\ ~("cache-control" \in DOMAIN response_headers
         /\ response_headers["cache-control"] # <<"public">>)
    /\ response_status \in cacheable_by_default_statuses
    /\ "date" \in DOMAIN response_headers
    /\ "last-modified" \in DOMAIN response_headers

\* the exception that leaves heuristic.update_headers, "none" when it returns:
\* calendar.timegm(parsedate_tz(...)) of a Date header that is no date is
\* calendar.timegm(None)
update_headers_raises(h, response_headers, response_status) ==
    IF /\ h = "LastModified"
       /\ ReachesDates(response_headers, response_status)
       /\ ~DateOk(response_headers["date"])
    THEN "TypeError"
    ELSE "none"

\* heuristic.update_headers(response_headers, response_status) at time t, for
\* ExpiresAfterHeuristic, LastModifiedHeuristic and the two heuristics of
\* tests/_async/test_expires_heuristics.py; the lifetime delta / 10 is a
\* float, compared here times ten, and time.gmtime drops the fraction of
\* date + lifetime
update_headers(h, response_headers, response_status, t) ==
    IF h = "ExpiresAfter"
    THEN ("expires" :> NumTok(t + ExpiresAfterDelta)) @@ ("cache-control" :> <<"public">>)
    ELSE IF h = "Dummy"
    THEN "x-dummy-header" :> <<"foobar">>
    ELSE IF h = "LastModified"
    THEN IF ~ReachesDates(response_headers, response_status) THEN <<>>
         ELSE IF ~DateOk(response_headers["date"]) THEN <<>>
         ELSE IF ~DateOk(response_headers["last-modified"]) THEN <<>>
         ELSE LET date == DateVal(response_headers["date"])
                  last_modified == DateVal(response_headers["last-modified"])
                  current_age == Max(0, t - date)
                  delta == date - last_modified
                  tenfold_lifetime ==
                      Max(0, IF delta <= 10 * 24 * 3600 THEN delta ELSE 10 * 24 * 3600)
              IN IF tenfold_lifetime <= 10 * current_age THEN <<>>
                 ELSE "expires" :> NumTok(date + (tenfold_lifetime \div 10))
    ELSE <<>>

\* heuristic.warning()
warning(h) ==
    IF h = "ExpiresAfter"
    THEN <<"110 - Automatically cached for ">> \o NumTok(ExpiresAfterDelta)
         \o <<". Response might be stale">>
    ELSE IF h = "LastModified" THEN None
    ELSE <<"110 - \"Response is Stale\"">>

Applied(headers, warning_called, exception) ==
    [headers |-> headers, warning_called |-> warning_called, exception |-> exception]

apply_warning_always(h, response_headers, response_status, t) ==
    Applied(HUpdate(HUpdate(response_headers,
                            update_headers(h, response_headers, response_status, t)),
                    Opt("warning", warning(h))),
            TRUE, update_headers_raises(h, response_headers, response_status))

\* BaseHeuristic.apply(response_headers, response_status) at time t,
\* statement by statement: the headers as it leaves them, whether it called
\* self.warning(), and the exception that left it
apply_steps(h, response_headers, response_status, t) ==
    LET updated_headers == update_headers(h, response_headers, response_status, t)
        raised == update_headers_raises(h, response_headers, response_status)
    IN IF raised # "none" THEN Applied(response_headers, FALSE, raised)
       ELSE IF DOMAIN updated_headers = {} THEN Applied(response_headers, FALSE, "none")
       ELSE Applied(HUpdate(HUpdate(response_headers, updated_headers),
                            Opt("warning", warning(h))),
                    TRUE, "none")

apply_nothing(h, response_headers, response_status, t) == response_headers

\* BaseHeuristic.apply(response_headers, response_status) at time t: the
\* headers as it leaves them
apply(h, response_headers, response_status, t) ==
    apply_steps(h, response_headers, response_status, t).headers

PastHeuristicUnless304(response) ==
    IF sent_request.method \in cacheable_methods /\ heuristic # "none"
       /\ response.status_code # 304
    THEN [response EXCEPT !.headers = apply(heuristic, @, response.status_code, now)]
    ELSE response

PastHeuristicAnyMethod(response) ==
    IF heuristic # "none"
    THEN [response EXCEPT !.headers = apply(heuristic, @, response.status_code, now)]
    ELSE response

\* server_response as try_from_server_policy has it once past the heuristic,
\* which changes the headers of the response object in place
PastHeuristic(response) ==
    IF sent_request.method \in cacheable_methods /\ heuristic # "none"
    THEN [response EXCEPT !.headers = apply(heuristic, @, response.status_code, now)]
    ELSE response

AfterInvalidationNotClosing(response) ==
    IF sent_request.method \notin cacheable_methods
    THEN ReturnWith(response, "SERVER")
    ELSE \E cache_action \in {cache_response_action(sent_request,
                                  PastHeuristic(response),
                                  cached_response # NoResponse, cache_etags,
                                  cacheable_status_codes)} :
            IF cache_action = NoAction THEN ReturnWith(PastHeuristic(response), "SERVER")
            ELSE Yield("L340", cache_action)

\* try_from_server_policy from the cacheable-method check on, given the
\* server's response
AfterInvalidation(response) ==
    IF sent_request.method \notin cacheable_methods
    THEN ReturnWith(response, "SERVER")
    ELSE IF response.status_code = 304
    THEN Yield("L312", CloseResponseStream(PastHeuristic(response)))
    ELSE \E cache_action \in {cache_response_action(sent_request,
                                  PastHeuristic(response),
                                  cached_response # NoResponse, cache_etags,
                                  cacheable_status_codes)} :
            IF cache_action = NoAction THEN ReturnWith(PastHeuristic(response), "SERVER")
            ELSE Yield("L340", cache_action)

\* SyncCachingTransport.request up to the generator's first yield
StartRequest ==
    /\ pc = "idle"
    /\ Len(streams) < MaxStreams
    /\ \E req \in Requests :
         /\ request' = req
         /\ IF BypassesCache(req)
            THEN StartPhaseB(req, NoResponse)
            ELSE /\ Yield("L177", CacheGet(get_cache_key(req)))
                 /\ UNCHANGED <<cached_response, sent_request>>
    /\ UNCHANGED <<server_response, now, cache_etags, heuristic, store, streams, pure_vars>>

\* io_handler on CacheGet, then try_from_cache_policy and caching_policy on
\* what it got
DoCacheGet ==
    /\ pc = "L177"
    /\ \E got \in {cache_get(store, yielded.key)} :
       \E ev \in {IF Raised(got.outcome) THEN "RAISE" ELSE Evaluate(request, got, now)} :
          \/ /\ ev = "RAISE"
             /\ RaiseOut(IF Raised(got.outcome) THEN got.outcome ELSE "TypeError")
             /\ UNCHANGED <<cached_response, sent_request>>
          \/ /\ ev = "GOOD"
             /\ cached_response' = got.response
             /\ ReturnWith(got.response, "CACHE")
             /\ UNCHANGED sent_request
          \/ /\ ev = "PURGE_UNDATED"
             /\ Yield("L208", CacheDelete(yielded.key))
             /\ UNCHANGED <<cached_response, sent_request>>
          \/ /\ ev = "PURGE_STALE"
             /\ Yield("L258", CacheDelete(yielded.key))
             /\ UNCHANGED <<cached_response, sent_request>>
          \/ /\ ev = "INCONCLUSIVE"
             /\ StartPhaseB(request, got.response)
          \/ /\ ev = "NONE"
             /\ StartPhaseB(request, NoResponse)
    /\ UNCHANGED <<request, server_response, now, cache_etags, heuristic, store, streams, pure_vars>>

\* io_handler on CacheDelete, then the policy from where it yielded it
DoCacheDelete ==
    /\ pc \in {"L208", "L258", "L297", "L340"}
    /\ yielded.kind = "CacheDelete"
    /\ store' = cache_delete(store, yielded.key)
    /\ \/ /\ pc \in {"L208", "L258"}
          /\ StartPhaseB(request, NoResponse)
       \/ /\ pc = "L297"
          /\ AfterInvalidation(server_response)
          /\ UNCHANGED <<cached_response, sent_request>>
       \/ /\ pc = "L340"
          /\ ReturnWith(server_response, "SERVER")
          /\ UNCHANGED <<cached_response, sent_request>>
    /\ UNCHANGED <<request, server_response, now, cache_etags, heuristic, streams, pure_vars>>

\* io_handler on MakeRequest, then try_from_server_policy on the response
DoMakeRequest ==
    /\ pc = "L291"
    /\ \/ \E response \in ServerResponses(now, sent_request.method) :
            IF is_invalidating_method(sent_request.method)
               /\ ~is_error(response.status_code)
            THEN /\ server_response' = response
                 /\ Yield("L297", CacheDelete(get_cache_key(sent_request)))
            ELSE /\ server_response' = PastHeuristic(response)
                 /\ AfterInvalidation(response)
       \/ \E exception \in TransportErrors :
            /\ RaiseOut(exception)
            /\ UNCHANGED server_response
    /\ UNCHANGED <<request, sent_request, cached_response, now, cache_etags, heuristic, store,
                   streams, pure_vars>>

DoCloseResponseStreamAgain ==
    /\ pc = "L312"
    /\ server_response' = [server_response EXCEPT !.stream.chunks = <<>>]
    /\ Yield("L312", yielded)
    /\ UNCHANGED <<request, sent_request, cached_response, now, cache_etags, heuristic, store,
                   streams, pure_vars>>

\* io_handler on CloseResponseStream, then the 304 branch.  copy() is shallow,
\* so the merge also lands in the headers object of cached_response, which
\* nothing reads afterwards: the variable keeps what Phase A returned.
DoCloseResponseStream ==
    /\ pc = "L312"
    /\ server_response' = [server_response EXCEPT !.stream.chunks = <<>>]
    /\ IF cached_response # NoResponse
       THEN LET updated_cached_response ==
                    update_with_304_response(cached_response, server_response.headers)
                vary_header_values ==
                    get_vary_headers(sent_request.headers, updated_cached_response)
            IN Yield("L325", CacheSet(get_cache_key(sent_request),
                                      updated_cached_response, vary_header_values, FALSE))
       ELSE ReturnWith(server_response', "SERVER")
    /\ UNCHANGED <<request, sent_request, cached_response, now, cache_etags, heuristic, store,
                   streams, pure_vars>>

\* wrap_response_stream(key, response, vary_header_values): the wrapper, whose
\* callback holds the response object request() then marks
ByteStreamWrapper(key, response, vary_header_values) ==
    [key |-> key, response |-> WithFromCache(response, "SERVER"),
     vary_header_values |-> vary_header_values,
     stream |-> response.stream.chunks, buffer |-> <<>>, callback_called |-> FALSE]

\* io_handler on CacheSet, then the policy from where it yielded it
DoCacheSet ==
    /\ pc \in {"L325", "L340"}
    /\ yielded.kind = "CacheSet"
    /\ IF yielded.deferred /\ ~yielded.response.stream.plain
       THEN /\ streams' = Append(streams, ByteStreamWrapper(yielded.key,
                                     yielded.response, yielded.vary_header_values))
            /\ ReturnWith(yielded.response, "SERVER")
            /\ UNCHANGED store
       ELSE IF ~yielded.response.stream.plain
       THEN /\ RaiseOut("AssertionError")
            /\ UNCHANGED <<store, streams>>
       ELSE /\ store' = cache_set(store, yielded.key, yielded.response,
                                  yielded.vary_header_values,
                                  StreamContent(yielded.response.stream))
            /\ UNCHANGED streams
            /\ IF pc = "L325" THEN ReturnWith(yielded.response, "CACHE")
               ELSE ReturnWith(server_response, "SERVER")
    /\ UNCHANGED <<request, sent_request, cached_response, server_response, now,
                   cache_etags, heuristic, pure_vars>>

\* the caller has its response (or its exception); the evaluation is over
Finish ==
    /\ pc \in {"returned", "raised"}
    /\ pc' = "idle"
    /\ request' = NoRequest
    /\ sent_request' = NoRequest
    /\ cached_response' = NoResponse
    /\ server_response' = NoResponse
    /\ yielded' = NoAction
    /\ emitted' = <<>>
    /\ result' = NoResult
    /\ awaiting' = FALSE
    /\ UNCHANGED <<now, cache_etags, heuristic, store, streams, pure_vars>>

\* ByteStreamWrapper.__iter__: the caller takes the next chunk
ReadChunk ==
    \E i \in 1..Len(streams) :
        /\ pc = "idle"
        /\ streams[i].stream # <<>>
        /\ streams' = [streams EXCEPT ![i].buffer = @ \o Head(streams[i].stream),
                                      ![i].stream = Tail(@)]
        /\ UNCHANGED <<now, cache_etags, heuristic, store, eval_vars, pure_vars>>

\* ByteStreamWrapper.__iter__ past the last chunk: _on_read_finish
ReadFinish ==
    \E i \in 1..Len(streams) :
        /\ pc = "idle"
        /\ streams[i].stream = <<>>
        /\ IF ~streams[i].callback_called
           THEN /\ store' = cache_set(store, streams[i].key, streams[i].response,
                                      streams[i].vary_header_values, streams[i].buffer)
                /\ streams' = [streams EXCEPT ![i].callback_called = TRUE]
           ELSE UNCHANGED <<store, streams>>
        /\ UNCHANGED <<now, cache_etags, heuristic, eval_vars, pure_vars>>

CloseInvokingCallback ==
    \E i \in 1..Len(streams) :
        /\ pc = "idle"
        /\ streams' = [j \in 1..(Len(streams) - 1) |->
                          IF j < i THEN streams[j] ELSE streams[j + 1]]
        /\ store' = cache_set(store, streams[i].key, streams[i].response,
                              streams[i].vary_header_values, streams[i].buffer)
        /\ UNCHANGED <<now, cache_etags, heuristic, eval_vars, pure_vars>>

\* ByteStreamWrapper.close, there being no stream_close: the caller closes a
\* response body, read or not, and lets go of it
DropStream ==
    \E i \in 1..Len(streams) :
        /\ pc = "idle"
        /\ streams' = [j \in 1..(Len(streams) - 1) |->
                          IF j < i THEN streams[j] ELSE streams[j + 1]]
        /\ UNCHANGED <<now, cache_etags, heuristic, store, eval_vars, pure_vars>>

\* time passes.  An evaluation reads the clock once, at its freshness check,
\* so time passing inside an evaluation shows nothing that time passing
\* before it does not.
Tick ==
    /\ pc = "idle"
    /\ now < MaxTime
    /\ now' = now + 1
    /\ UNCHANGED <<cache_etags, heuristic, store, streams, eval_vars, pure_vars>>

Next ==
    \/ StartRequest
    \/ DoCacheGet
    \/ DoCacheDelete
    \/ DoMakeRequest
    \/ DoCloseResponseStream
    \/ DoCacheSet
    \/ Finish
    \/ ReadChunk
    \/ ReadFinish
    \/ DropStream
    \/ Tick

Spec == Init /\ [][Next]_vars

(***************************************************************************)
(* SpecApply: heuristic.apply on enumerated headers, statuses and times    *)
(***************************************************************************)
Heuristics == {"Noop", "Dummy", "ExpiresAfter", "LastModified"}

\* the times of Date, Last-Modified and the clock: around a lifetime of 3.5
\* (Date 40, Last-Modified 5), of 4 (45 and 5) and of the 24 hours' limit
\* (864010 and 0)
ApplyTimes == {0, 5, 40, 43, 44, 45, 48, 49, 864010, 950409, 950410}

NotADate == <<"yesterday">>

ApplyHeaders ==
    {date @@ last_modified @@ cc @@ expires :
        date \in {<<>>, "date" :> NotADate}
                 \cup {"date" :> NumTok(t) : t \in {5, 40, 45, 864010}},
        last_modified \in {<<>>, "last-modified" :> NotADate}
                          \cup {"last-modified" :> NumTok(t) : t \in {0, 5, 40}},
        cc \in {<<>>, "cache-control" :> <<"public">>, "cache-control" :> <<"private">>,
                "cache-control" :> <<"public", ",", " ">> \o MaxAge},
        expires \in {<<>>, "expires" :> NumTok(950410)}}

ApplyStatuses == {200, 299, 404}

\* a response just received from the server, a heuristic and the time
InitApply ==
    /\ heuristic \in Heuristics
    /\ now \in ApplyTimes
    /\ server_response \in {Lazy(status_code, headers, <<>>) :
                               status_code \in ApplyStatuses, headers \in ApplyHeaders}
    /\ applied = NotApplied
    /\ phase = "response"
    /\ cache_etags = TRUE
    /\ store = <<>>
    /\ streams = <<>>
    /\ ThreadsIdle
    /\ pc = "idle"
    /\ request = NoRequest
    /\ sent_request = NoRequest
    /\ cached_response = NoResponse
    /\ yielded = NoAction
    /\ emitted = <<>>
    /\ result = NoResult
    /\ awaiting = FALSE
    /\ cc_input = <<>>
    /\ cc_result = ParseOk(<<>>)
    /\ CodecIdle

\* heuristic.apply(server_response.headers, server_response.status_code)
Apply ==
    /\ phase = "response"
    /\ phase' = "applied"
    /\ applied' = apply_steps(heuristic, server_response.headers,
                              server_response.status_code, now)
    /\ UNCHANGED <<cc_input, cc_result, codec_vars, thread_vars, engine_vars>>

NextApply == Apply

SpecApply == InitApply /\ [][NextApply]_vars

(***************************************************************************)
(* SpecDelivered: the engine with a driver that delivers the result of     *)
(* every action the generator yields (sync_callback_generator's loop)      *)
(***************************************************************************)
\* Weak fairness of each handler.  DoCacheGet is enabled exactly at L177 and
\* DoMakeRequest exactly at L291 (each has a branch for every entry and every
\* answer), so their fairness is written with that condition in the place of
\* ENABLED.
SpecDelivered ==
    /\ Init
    /\ [][Next]_vars
    /\ ([]<>(pc # "L177") \/ []<><<DoCacheGet>>_vars)
    /\ ([]<>(pc # "L291") \/ []<><<DoMakeRequest>>_vars)
    /\ WF_vars(DoCacheDelete)
    /\ WF_vars(DoCloseResponseStream)
    /\ WF_vars(DoCacheSet)

(***************************************************************************)
(* SpecCacheAction: cache_response_action on enumerated responses          *)
(***************************************************************************)
ActionStatuses == {200, 203, 206, 301, 308, 404}

ActionHeaders ==
    {date @@ cc @@ expires @@ etag @@ vary :
        date \in {<<>>, "date" :> NumTok(0)},
        cc \in {<<>>, "cache-control" :> MaxAge,
                "cache-control" :> <<"max-age", "=", "0">>,
                "cache-control" :> <<"no-store">>},
        expires \in {<<>>, "expires" :> NumTok(2), "expires" :> <<>>,
                     "expires" :> NotADate},
        etag \in {<<>>, "etag" :> <<"v1">>},
        vary \in {<<>>, "vary" :> <<"accept">>, "vary" :> <<"*">>}}

\* a new response in try_from_server_policy, past the 304 branch
InitCacheAction ==
    /\ now = 0
    /\ cache_etags \in BOOLEAN
    /\ heuristic = "none"
    /\ request \in {req \in Requests : req.method \in cacheable_methods}
    /\ sent_request = request
    /\ server_response \in {Lazy(status_code, headers, << <<"hello">> >>) :
                               status_code \in ActionStatuses, headers \in ActionHeaders}
    /\ cached_response \in {NoResponse,
                             MkResponse(200, "etag" :> <<"v1">>, TRUE, <<>>, <<>>)}
    /\ phase = "new response"
    /\ applied = NotApplied
    /\ store = <<>>
    /\ streams = <<>>
    /\ ThreadsIdle
    /\ pc = "L291"
    /\ yielded = NoAction
    /\ emitted = <<>>
    /\ result = NoResult
    /\ awaiting = FALSE
    /\ cc_input = <<>>
    /\ cc_result = ParseOk(<<>>)
    /\ CodecIdle

\* cache_action = cache_response_action(request, server_response, ...)
CacheResponseAction ==
    /\ phase = "new response"
    /\ phase' = "cache_action"
    /\ yielded' = cache_response_action(sent_request, server_response,
                                        cached_response # NoResponse, cache_etags,
                                        cacheable_status_codes)
    /\ UNCHANGED <<cc_input, cc_result, codec_vars, thread_vars, applied, now,
                   cache_etags, heuristic, store, streams, pc, request, sent_request,
                   cached_response, server_response, emitted, result, awaiting>>

NextCacheAction == CacheResponseAction

SpecCacheAction == InitCacheAction /\ [][NextCacheAction]_vars

(***************************************************************************)
(* SpecPhaseA: try_from_cache_policy on a cache that already holds an      *)
(* entry when the transport is given it, up to the MakeRequest of          *)
(* try_from_server_policy                                                  *)
(***************************************************************************)
StoredHeaders ==
    {date @@ cc @@ expires @@ etag @@ last_modified :
        date \in {<<>>, "date" :> NumTok(0), "date" :> NumTok(1), "date" :> NotADate},
        cc \in {<<>>, "cache-control" :> MaxAge},
        expires \in {<<>>, "expires" :> NumTok(2), "expires" :> NumTok(0),
                     "expires" :> NotADate},
        etag \in {<<>>, "etag" :> <<"v1">>},
        last_modified \in {<<>>, "last-modified" :> NumTok(0)}}

\* the stored bytes of a response with these headers, written for a request
\* with these values of the headers its Vary names
StoredEntry(status_code, headers, vary_header_data) ==
    StoreDumps(Lazy(status_code, headers, << <<"hello">> >>), vary_header_data, <<"hello">>)

StoredEntries ==
    {StoredEntry(200, headers, <<>>) : headers \in StoredHeaders}
    \cup {StoredEntry(200, headers @@ ("vary" :> <<"accept">>),
                      "accept" :> <<"text/plain">>) :
             headers \in {<<>>, "etag" :> <<"v1">>,
                          ("date" :> NumTok(0)) @@ ("cache-control" :> MaxAge)}}
    \cup {StoredEntry(301, <<>>, <<>>)}

InitPhaseA ==
    /\ now \in 0..MaxTime
    /\ cache_etags = TRUE
    /\ heuristic = "none"
    /\ store \in {Url :> entry : entry \in StoredEntries}
    /\ streams = <<>>
    /\ ThreadsIdle
    /\ EvalIdle
    /\ cc_input = <<>>
    /\ cc_result = ParseOk(<<>>)
    /\ phase = "engine"
    /\ CodecIdle
    /\ applied = NotApplied

NextPhaseA ==
    \/ StartRequest
    \/ DoCacheGet
    \/ DoCacheDelete

SpecPhaseA == InitPhaseA /\ [][NextPhaseA]_vars

(***************************************************************************)
(* SpecAsync: the asynchronous driver and AsyncCachingTransport            *)
(***************************************************************************)
AwaitResending ==
    /\ pc \notin {"idle", "returned", "raised"}
    /\ ~awaiting
    /\ awaiting' = TRUE
    /\ emitted' = Append(emitted, yielded.kind)
    /\ UNCHANGED <<pc, request, sent_request, cached_response, server_response,
                   yielded, result>>
    /\ UNCHANGED <<now, cache_etags, heuristic, store, streams, pure_vars>>

\* async_callback_generator: "to_send = await callback(yielded)" creates the
\* coroutine of aio_handler for the yielded action and suspends the driver on
\* it; nothing of the evaluation has changed yet
AwaitCallback ==
    /\ pc \notin {"idle", "returned", "raised"}
    /\ ~awaiting
    /\ awaiting' = TRUE
    /\ UNCHANGED <<pc, request, sent_request, cached_response, server_response,
                   yielded, emitted, result>>
    /\ UNCHANGED <<now, cache_etags, heuristic, store, streams, pure_vars>>

\* aio_handler runs to its end on the awaited action (cache.aget, adelete,
\* aset, transport.arequest, the stream's async iteration and aclose) and the
\* driver sends its result into the generator: the statements of io_handler,
\* each call awaited
AioHandler ==
    /\ awaiting
    /\ \/ DoCacheGet
       \/ DoCacheDelete
       \/ DoMakeRequest
       \/ DoCloseResponseStream
       \/ DoCacheSet

NextAsync ==
    \/ StartRequest
    \/ AwaitCallback
    \/ AioHandler
    \/ Finish
    \/ ReadChunk
    \/ ReadFinish
    \/ DropStream
    \/ Tick

SpecAsync == Init /\ [][NextAsync]_vars

\* a transport constructed with heuristic=ExpiresAfterHeuristic(days=1)
InitHeuristic ==
    /\ now = 0
    /\ cache_etags \in BOOLEAN
    /\ heuristic = "ExpiresAfter"
    /\ store = <<>>
    /\ streams = <<>>
    /\ ThreadsIdle
    /\ EvalIdle
    /\ cc_input = <<>>
    /\ cc_result = ParseOk(<<>>)
    /\ phase = "engine"
    /\ CodecIdle
    /\ applied = NotApplied

SpecHeuristic == InitHeuristic /\ [][Next]_vars

(***************************************************************************)
(* SpecThreads: threads sharing one transport and its SyncDictCache        *)
(***************************************************************************)
Threads == {"t1", "t2"}

\* one thread's position: the call of request() it is in, the actions its
\* policy generator has yielded, the cache call it is inside and the lock
\* object get_lock handed it
ThreadAt(at, calls, method, thread_emitted, action, my_lock, response, source, exception) ==
    [pc |-> at, calls |-> calls, method |-> method, emitted |-> thread_emitted,
     action |-> action, my_lock |-> my_lock, response |-> response,
     source |-> source, exception |-> exception]

ThreadRequestOf(t) == [method |-> threads[t].method, url |-> Url, headers |-> <<>>]

\* what the origin server answers the threads at time t: two different
\* cacheable 200s to a GET, fresh for as long as the clock runs, 204 to a
\* DELETE
ThreadResponses(method, t) ==
    LET date == "date" :> NumTok(t)
        cc   == "cache-control" :> <<"max-age", "=", "2">>
    IN IF method \in cacheable_methods
       THEN { Lazy(200, date @@ cc, << <<"hello">> >>),
              Lazy(200, date @@ cc @@ ("etag" :> <<"v2">>), << <<"world">> >>) }
       ELSE { Lazy(204, date, <<>>) }

InitThreads ==
    /\ now = 0
    /\ cache_etags = TRUE
    /\ heuristic = "none"
    /\ store = <<>>
    /\ streams = <<>>
    /\ EvalIdle
    /\ lock = 0
    /\ locks = <<>>
    /\ threads = [t \in Threads |->
                    ThreadAt("idle", 0, "", <<>>, NoAction, 0, NoResponse, "none", "none")]
    /\ cc_input = <<>>
    /\ cc_result = ParseOk(<<>>)
    /\ phase = "threads"
    /\ CodecIdle
    /\ applied = NotApplied

\* request() returns to its caller, or an exception leaves it
ThreadReturn(t, response, source, exception) ==
    [threads EXCEPT ![t] = ThreadAt("idle", @.calls + 1, @.method, @.emitted, NoAction,
                                    0, response, source, exception)]

\* handle_request up to the generator's first yield
ThreadRequest(t) ==
    /\ threads[t].pc = "idle"
    /\ threads[t].calls < MaxCalls
    /\ \E method \in {"GET", "DELETE"} :
         LET req == [method |-> method, url |-> Url, headers |-> <<>>]
         IN threads' = [threads EXCEPT ![t] =
                IF BypassesCache(req)
                THEN ThreadAt("send", @.calls, method, <<"MakeRequest">>, NoAction, 0,
                              NoResponse, "none", "none")
                ELSE ThreadAt("get", @.calls, method, <<"CacheGet">>, NoAction, 0,
                              NoResponse, "none", "none")]
    /\ UNCHANGED <<lock, locks, cc_input, cc_result, phase, applied, codec_vars, engine_vars>>

\* io_handler for CacheGet, cache.get taking no lock, and the policy's
\* evaluation of what came back (a stored 200 is fresh up to MaxTime)
ThreadCacheGet(t) ==
    /\ threads[t].pc = "get"
    /\ \E got \in {cache_get(store, get_cache_key(ThreadRequestOf(t)))} :
       \E evaluation \in {Evaluate(ThreadRequestOf(t), got, now)} :
         /\ evaluation \in {"GOOD", "NONE"}
         /\ threads' =
              IF evaluation = "GOOD"
              THEN ThreadReturn(t, WithFromCache(got.response, "CACHE"), "CACHE", "none")
              ELSE [threads EXCEPT ![t].pc = "send",
                                   ![t].emitted = Append(@, "MakeRequest")]
    /\ UNCHANGED <<lock, locks, cc_input, cc_result, phase, applied, codec_vars, engine_vars>>

\* io_handler for MakeRequest and the policy's handling of the answer: the
\* invalidation of an unsafe method, or the CacheSet of a cacheable answer,
\* which the thread performs once it has read the body to its end
ThreadMakeRequest(t) ==
    /\ threads[t].pc = "send"
    /\ \E response \in ThreadResponses(threads[t].method, now) :
       \E action \in {IF /\ is_invalidating_method(threads[t].method)
                         /\ ~is_error(response.status_code)
                      THEN CacheDelete(get_cache_key(ThreadRequestOf(t)))
                      ELSE IF threads[t].method \notin cacheable_methods THEN NoAction
                      ELSE cache_response_action(ThreadRequestOf(t), response, FALSE,
                                                 cache_etags, cacheable_status_codes)} :
         threads' =
            IF action.kind = "none"
            THEN ThreadReturn(t, WithFromCache(response, "SERVER"), "SERVER", "none")
            ELSE [threads EXCEPT ![t] =
                    ThreadAt("L15", @.calls, @.method, Append(@.emitted, action.kind),
                             action, 0, WithFromCache(response, "SERVER"), "SERVER", "none")]
    /\ UNCHANGED <<lock, locks, cc_input, cc_result, phase, applied, codec_vars, engine_vars>>

\* get_lock, one statement a step: the test of self.lock, the assignment of
\* a new lock, the return of whatever self.lock is by then
ThreadGetLock(t) ==
    /\ threads[t].pc \in {"L15", "L16", "L17"}
    /\ \/ /\ threads[t].pc = "L15"
          /\ threads' = [threads EXCEPT ![t].pc = IF lock = 0 THEN "L16" ELSE "L17"]
          /\ UNCHANGED <<lock, locks>>
       \/ /\ threads[t].pc = "L16"
          /\ locks' = Append(locks, "free")
          /\ lock' = Len(locks) + 1
          /\ threads' = [threads EXCEPT ![t].pc = "L17"]
       \/ /\ threads[t].pc = "L17"
          /\ threads' = [threads EXCEPT ![t].pc = "with", ![t].my_lock = lock]
          /\ UNCHANGED <<lock, locks>>
    /\ UNCHANGED <<cc_input, cc_result, phase, applied, codec_vars, engine_vars>>

\* with self.get_lock(): the lock returned is acquired once it is free
ThreadEnter(t) ==
    /\ threads[t].pc = "with"
    /\ locks[threads[t].my_lock] = "free"
    /\ locks' = [locks EXCEPT ![threads[t].my_lock] = t]
    /\ threads' = [threads EXCEPT ![t].pc =
                      IF threads[t].action.kind = "CacheSet" THEN "L26" ELSE "L32"]
    /\ UNCHANGED <<lock, cc_input, cc_result, phase, applied, codec_vars, engine_vars>>

\* set: self.data.update({key: dumps(...)}) and the end of the with block
ThreadSet(t) ==
    /\ threads[t].pc = "L26"
    /\ store' = cache_set(store, threads[t].action.key,
                          threads[t].action.response,
                          threads[t].action.vary_header_values,
                          StreamContent(threads[t].action.response.stream))
    /\ locks' = [locks EXCEPT ![threads[t].my_lock] = "free"]
    /\ threads' = ThreadReturn(t, threads[t].response, "SERVER", "none")
    /\ UNCHANGED <<lock, cc_input, cc_result, phase, applied, codec_vars, now, cache_etags,
                   heuristic, streams, eval_vars>>

\* delete: the test "key in self.data", then self.data.pop(key), which raises
\* KeyError for a key no longer there, and the end of the with block
ThreadDelete(t) ==
    /\ threads[t].pc \in {"L32", "L33"}
    /\ \/ /\ threads[t].pc = "L32"
          /\ threads[t].action.key \in DOMAIN store
          /\ threads' = [threads EXCEPT ![t].pc = "L33"]
          /\ UNCHANGED <<store, locks>>
       \/ /\ threads[t].pc = "L32"
          /\ threads[t].action.key \notin DOMAIN store
          /\ locks' = [locks EXCEPT ![threads[t].my_lock] = "free"]
          /\ threads' = ThreadReturn(t, threads[t].response, "SERVER", "none")
          /\ UNCHANGED store
       \/ /\ threads[t].pc = "L33"
          /\ store' = cache_delete(store, threads[t].action.key)
          /\ locks' = [locks EXCEPT ![threads[t].my_lock] = "free"]
          /\ threads' = IF threads[t].action.key \in DOMAIN store
                        THEN ThreadReturn(t, threads[t].response, "SERVER", "none")
                        ELSE ThreadReturn(t, NoResponse, "none", "KeyError")
    /\ UNCHANGED <<lock, cc_input, cc_result, phase, applied, codec_vars, now, cache_etags,
                   heuristic, streams, eval_vars>>

NextThreads ==
    \/ \E t \in Threads :
          \/ ThreadRequest(t)
          \/ ThreadCacheGet(t)
          \/ ThreadMakeRequest(t)
          \/ ThreadGetLock(t)
          \/ ThreadEnter(t)
          \/ ThreadSet(t)
          \/ ThreadDelete(t)
    \/ Tick

SpecThreads == InitThreads /\ [][NextThreads]_vars

(***************************************************************************)
(* The claims checked on Spec                                              *)
(***************************************************************************)
Range(seq) == {seq[i] : i \in 1..Len(seq)}

\* the entry the store holds for key, as a lookup decodes it
EntryOf(data, key) == cache_get(data, key)

\* a step that begins an evaluation; one that resolves its CacheGet
StartStep == pc = "idle" /\ pc' # "idle"

LookupStep == pc = "L177" /\ pc' # "L177"

\* the step in which the callback of wrapper i runs
CallbackStep(i) ==
    /\ Len(streams') = Len(streams)
    /\ ~streams[i].callback_called
    /\ streams'[i].callback_called

\* the headers an entry keeps of a response's
HeadersKept(headers) ==
    IF HGet(headers, "transfer-encoding") = <<"chunked">>
    THEN HPop(headers, "transfer-encoding")
    ELSE headers

\* the request's Cache-Control has a segment no-cache or max-age=0
CacheBusting(req) ==
    LET segs == Split(HGetStr(req.headers, "cache-control"), ",")
    IN \E i \in 1..Len(segs) :
          Strip(segs[i]) \in {<<"no-cache">>, <<"max-age", "=", "0">>}

\* the request has, for every header the entry's vary data names, its value
VaryMatches(e, req) == \A h \in DOMAIN e.vary : HGet(req.headers, h) = e.vary[h]

\* a 200 response with a Date and a max-age
HasMaxAge(response) ==
    /\ response.status_code = 200
    /\ "date" \in DOMAIN response.headers
    /\ "max-age" \in DOMAIN parse_cache_control_directives(response.headers)

\* e is a decodable 200 entry, younger at time t than its max-age, that
\* matches req, and req has no Cache-Control
FreshFor(e, req, t) ==
    /\ e.outcome = "ok"
    /\ HasMaxAge(e.response)
    /\ parse_cache_control_directives(e.response.headers)["max-age"][1]
           > t - DateVal(e.response.headers["date"])
    /\ VaryMatches(e, req)
    /\ "cache-control" \notin DOMAIN req.headers

\* the evaluation ended at once, handing out entry e from the cache
ServedAsIs(e) ==
    /\ pc' = "returned"
    /\ result'.source = "CACHE"
    /\ result'.response.status_code = e.response.status_code
    /\ result'.response.headers = e.response.headers
    /\ StreamContent(result'.response.stream) = StreamContent(e.response.stream)
    /\ emitted' = <<"CacheGet">>

\* the callback of wrapper i leaves an entry with the status and the body of
\* the response handed out, and with its headers: all of them, or all but a
\* "Transfer-Encoding: chunked"
WrittenAsRead(i, all_headers) ==
    LET w == streams[i]
        e == EntryOf(store', w.key)
    IN /\ e.outcome = "ok"
       /\ e.response.status_code = w.response.status_code
       /\ StreamContent(e.response.stream) = StreamContent(w.response.stream)
       /\ e.response.headers = IF all_headers THEN w.response.headers
                               ELSE HeadersKept(w.response.headers)

ReServed ==
    LookupStep /\ FreshFor(EntryOf(store, yielded.key), request, now)
        => ServedAsIs(EntryOf(store, yielded.key))

C2_Bypass ==
    request.method \in {"GET"} /\ CacheBusting(request)
        => "CacheGet" \notin Range(emitted) /\ result.source # "CACHE"

C2_Witness ==
    /\ pc = "returned"
    /\ request.headers = ("cache-control" :> <<"max-age", "=", "0">>)
    /\ EntryOf(store, request.url).outcome = "ok"
    /\ EntryOf(store, request.url).response.status_code = 301
    /\ server_response.status_code = 304
    /\ result.source = "SERVER"

RedirectEntry(e) == e.outcome = "ok" /\ e.response.status_code \in {301, 308}

\* C3 as the specification words it: while the store holds a 301 or 308 entry
\* for the URL, every request to it is looked up and served the entry.
C3_EveryRequest ==
    [][ /\ StartStep /\ RedirectEntry(EntryOf(store, request'.url))
            => yielded'.kind = "CacheGet"
        /\ LookupStep /\ RedirectEntry(EntryOf(store, yielded.key))
            => ServedAsIs(EntryOf(store, yielded.key)) ]_vars

\* C3, amended: while the store holds a 301 or 308 entry for the URL, every
\* request with a cacheable method, no no-cache and no max-age=0, whose headers
\* match the entry's vary data, is served the entry as it is, with no
\* MakeRequest, whatever its Date, age and freshness headers.
C3_RedirectTrust ==
    [][ /\ StartStep /\ RedirectEntry(EntryOf(store, request'.url))
           /\ request'.method \in {"GET"} /\ ~CacheBusting(request')
            => yielded'.kind = "CacheGet"
        /\ LookupStep /\ RedirectEntry(EntryOf(store, yielded.key))
           /\ VaryMatches(EntryOf(store, yielded.key), request)
            => ServedAsIs(EntryOf(store, yielded.key)) ]_vars

C3_Witness ==
    /\ pc = "returned"
    /\ result.source = "CACHE"
    /\ result.response.status_code = 301
    /\ "max-age" \in DOMAIN parse_cache_control_directives(result.response.headers)
    /\ DateVal(result.response.headers["date"]) < now
    /\ emitted = <<"CacheGet">>

\* C4: a PUT, PATCH or DELETE answered with a status below 400 emits
\* CacheDelete for the URL after its MakeRequest and leaves the store without
\* an entry for it; a GET that finds no entry goes to the server and returns
\* source SERVER.
C4_Invalidation ==
    [][ /\ pc' = "returned" /\ request'.method \in {"PUT", "PATCH", "DELETE"}
           /\ server_response'.status_code < 400
            => /\ emitted' = <<"MakeRequest", "CacheDelete">>
               /\ request'.url \notin DOMAIN store'
               /\ result'.source = "SERVER"
        /\ pc = "L297" => yielded.kind = "CacheDelete" /\ yielded.key = request.url
                          /\ yielded.key \notin DOMAIN store'
        /\ LookupStep /\ yielded.key \notin DOMAIN store
            => /\ yielded'.kind = "MakeRequest"
               /\ cached_response' = NoResponse
        /\ pc' = "returned" /\ cached_response' = NoResponse
            => result'.source = "SERVER" ]_vars

C4_Witness ==
    /\ pc = "L297"
    /\ request.method = "PATCH"
    /\ server_response.status_code = 204
    /\ EntryOf(store, request.url).outcome = "ok"
    /\ emitted = <<"MakeRequest", "CacheDelete">>

\* C5: every CacheSet carries, for exactly the headers the response's Vary
\* names, their values in the request the policy sent; a request whose value for one
\* of them differs from the entry's is sent to the server and answered with
\* source SERVER; a request that agrees on all of them, whatever its other
\* headers, is served a fresh entry from the cache.
C5_Vary ==
    [][ /\ yielded'.kind = "CacheSet"
            => /\ DOMAIN yielded'.vary_header_values
                      = (IF "vary" \in DOMAIN yielded'.response.headers
                         THEN VaryNames(yielded'.response.headers["vary"]) ELSE {})
               /\ \A h \in DOMAIN yielded'.vary_header_values :
                      yielded'.vary_header_values[h] = HGet(sent_request'.headers, h)
        /\ LookupStep /\ EntryOf(store, yielded.key).outcome = "ok"
           /\ ~VaryMatches(EntryOf(store, yielded.key), request)
            => /\ yielded'.kind = "MakeRequest"
               /\ cached_response' = NoResponse
        /\ pc' = "returned" /\ cached_response' = NoResponse
            => result'.source = "SERVER"
        /\ ReServed ]_vars

C5_Witness ==
    /\ pc = "returned"
    /\ request.headers = ("accept" :> <<"text/html">>)
    /\ EntryOf(store, request.url).outcome = "ok"
    /\ EntryOf(store, request.url).vary = ("accept" :> <<"text/plain">>)
    /\ FreshFor(EntryOf(store, request.url),
                [request EXCEPT !.headers = ("accept" :> <<"text/plain">>)], now)
    /\ result.source = "SERVER"

\* the cached headers overridden by the 304 response's, Content-Length apart
MergedHeaders(cached_headers, new_headers) ==
    [n \in DOMAIN cached_headers \cup (DOMAIN new_headers \ {"content-length"}) |->
        IF n \in DOMAIN new_headers /\ n # "content-length" THEN new_headers[n]
        ELSE cached_headers[n]]

\* C6: when the server answers 304 to the revalidation of a cached entry, a
\* non-deferred CacheSet under the request's key carries the cached response
\* with status 200 and the merged headers, and the caller gets that response,
\* with the cached body, and source CACHE.
C6_Merge304 ==
    server_response.status_code = 304 /\ cached_response # NoResponse
    /\ pc \in {"L325", "returned"}
        => LET merged == MergedHeaders(cached_response.headers, server_response.headers)
           IN /\ pc = "L325" =>
                    /\ yielded.kind = "CacheSet"
                    /\ ~yielded.deferred
                    /\ yielded.key = request.url
                    /\ yielded.response.status_code = 200
                    /\ yielded.response.headers = merged
                    /\ yielded.response.stream = cached_response.stream
              /\ pc = "returned" =>
                    /\ result.source = "CACHE"
                    /\ result.response.status_code = 200
                    /\ result.response.headers = merged
                    /\ result.response.stream = cached_response.stream
                    /\ emitted = <<"CacheGet", "MakeRequest", "CloseResponseStream",
                                   "CacheSet">>
                    /\ EntryOf(store, request.url).outcome = "ok"
                    /\ EntryOf(store, request.url).response.status_code = 200
                    /\ EntryOf(store, request.url).response.headers = merged
                    /\ EntryOf(store, request.url).response.stream = cached_response.stream

C6_Witness ==
    /\ pc = "returned"
    /\ server_response.status_code = 304
    /\ "content-length" \in DOMAIN server_response.headers
    /\ "etag" \in DOMAIN cached_response.headers
    /\ "cache-control" \notin DOMAIN cached_response.headers
    /\ result.source = "CACHE"
    /\ result.response.status_code = 200
    /\ result.response.headers["cache-control"] = MaxAge
    /\ "content-length" \notin DOMAIN result.response.headers
    /\ StreamContent(result.response.stream) = <<"hello">>

\* C7: no entry of the store has a response whose Vary has "*", and no CacheSet
\* carries one.
C7_NoVaryStar ==
    /\ \A k \in DOMAIN store :
          ~HasTok(HGetStr(EntryOf(store, k).response.headers, "vary"), "*")
    /\ yielded.kind = "CacheSet"
          => ~HasTok(HGetStr(yielded.response.headers, "vary"), "*")

\* C8: loads(dumps(response)) gives a response with the status code, the body
\* bytes and the header values of the one dumped, but for a
\* "Transfer-Encoding: chunked" header, which is gone.
C8_RoundTrip ==
    phase = "reloaded" =>
        /\ codec_result.outcome = "ok"
        /\ codec_result.response.status_code = codec_response.status_code
        /\ StreamContent(codec_result.response.stream)
               = StreamContent(codec_response.stream)
        /\ codec_result.response.headers
               = IF HGet(codec_response.headers, "transfer-encoding") = <<"chunked">>
                 THEN HPop(codec_response.headers, "transfer-encoding")
                 ELSE codec_response.headers

C8_Witness ==
    /\ phase = "reloaded"
    /\ codec_result.outcome = "ok"
    /\ HGet(codec_response.headers, "transfer-encoding") = <<"chunked">>
    /\ "vary" \in DOMAIN codec_response.headers
    /\ "transfer-encoding" \notin DOMAIN codec_result.response.headers
    /\ HasTok(StreamContent(codec_result.response.stream), ",")

\* C9: loads raises on no stored value: one it cannot decode is a miss.
C9_UndecodableIsMiss ==
    phase = "loaded" => ~Raised(codec_result.outcome)

\* the step in which the caller closes wrapper i and lets go of it
CloseStep(i) ==
    /\ pc = "idle"
    /\ Len(streams') = Len(streams) - 1
    /\ \A j \in 1..Len(streams') : streams'[j] = streams[IF j < i THEN j ELSE j + 1]

\* the callback of wrapper i has run in this step, with the bytes accumulated
SavedBuffer(i) ==
    store' = cache_set(store, streams[i].key, streams[i].response,
                       streams[i].vary_header_values, streams[i].buffer)

\* C11: the callback of a wrapper runs once, with the accumulated bytes, when
\* the stream is first seen fully consumed, be it by the iteration reaching the
\* end of the stream or by a close; it never runs a second time.
C11_CallbackOnConsumed ==
    [][ \A i \in 1..Len(streams) :
          /\ CallbackStep(i) => streams[i].stream = <<>> /\ SavedBuffer(i)
          /\ CloseStep(i) /\ streams[i].stream = <<>> /\ ~streams[i].callback_called
                => SavedBuffer(i)
          /\ CloseStep(i) /\ streams[i].callback_called => store' = store ]_vars

YieldPoints == {"L177", "L208", "L258", "L291", "L297", "L312", "L325", "L340"}

\* C13: an evaluation has at most one action in flight, the one emitted last,
\* and none once it has returned or raised; an emission adds one action, and
\* it is made in the driver turn that enacts the action in flight and hands
\* its result to the generator: the lookup, the deletion, the answer of the
\* server, the emptied stream of the 304.
C13_OneAtATime ==
    [][ /\ pc \in YieldPoints
            => /\ emitted # <<>>
               /\ yielded.kind = emitted[Len(emitted)]
        /\ pc \notin YieldPoints => yielded = NoAction
        /\ emitted' # emitted /\ emitted' # <<>>
            => /\ emitted' = Append(emitted, yielded'.kind)
               /\ pc' \in YieldPoints
               /\ emitted = <<>> => pc = "idle"
               /\ emitted # <<>> => pc \in YieldPoints
               /\ yielded.kind = "CacheDelete" => yielded.key \notin DOMAIN store'
               /\ yielded.kind = "MakeRequest" => server_response' # NoResponse
               /\ yielded.kind = "CloseResponseStream"
                     => server_response'.stream.chunks = <<>>
               /\ yielded.kind = "CacheGet" /\ cached_response' # NoResponse
                     => cached_response' = EntryOf(store, yielded.key).response ]_vars

C13_Witness ==
    /\ pc = "L325"
    /\ yielded.kind = "CacheSet"
    /\ emitted = <<"CacheGet", "MakeRequest", "CloseResponseStream", "CacheSet">>

\* C15: the response request() returns has the extension from_cache, true
\* when the engine's source is CACHE, a served entry or a 304 merge, and false
\* when it is SERVER; the source is one of the two.
C15_FromCacheFlag ==
    pc = "returned"
        => /\ result.source \in {"CACHE", "SERVER"}
           /\ "from_cache" \in DOMAIN result.response.ext
           /\ result.response.ext["from_cache"]
                 = <<IF result.source = "CACHE" THEN "true" ELSE "false">>

C15_Witness ==
    /\ pc = "returned"
    /\ server_response.status_code = 304
    /\ result.source = "CACHE"
    /\ result.response.ext["from_cache"] = <<"true">>
    /\ EntryOf(store, request.url).response.ext["from_cache"] = <<"false">>

\* the number of MakeRequest actions among those emitted
Sends(kinds) == Cardinality({i \in 1..Len(kinds) : kinds[i] = "MakeRequest"})

\* C18: when the transport raises on MakeRequest the caller gets that
\* exception, the evaluation ends with nothing emitted after the MakeRequest
\* and with the store and the response bodies as they were; no evaluation
\* emits a second MakeRequest.
C18_FailurePropagates ==
    [][ /\ Sends(emitted) <= 1
        /\ pc = "L291" /\ pc' = "raised"
            => /\ result'.exception \in TransportErrors
               /\ result'.response = NoResponse
               /\ emitted' = emitted
               /\ emitted[Len(emitted)] = "MakeRequest"
               /\ yielded' = NoAction
               /\ store' = store /\ streams' = streams
        /\ pc = "raised" => pc' = "idle" /\ emitted' = <<>> /\ store' = store ]_vars

C18_Witness ==
    /\ pc = "raised"
    /\ result.exception = "ReadTimeout"
    /\ emitted = <<"CacheGet", "MakeRequest">>
    /\ cached_response # NoResponse
    /\ request.url \in DOMAIN store

\* a 200 response with an ETag that the engine may store as it is configured
\* and as the request allows
NewETagResponse(response) ==
    /\ cache_etags
    /\ "no-store" \notin DOMAIN parse_cache_control_directives(sent_request.headers)
    /\ response.status_code = 200
    /\ "etag" \in DOMAIN response.headers
    /\ "no-store" \notin DOMAIN parse_cache_control_directives(response.headers)
    /\ ~HasTok(HGetStr(response.headers, "vary"), "*")

FlatTTLHeaders(headers, t) ==
    /\ HGet(headers, "expires") = NumTok(t + ExpiresAfterDelta)
    /\ HGet(headers, "cache-control") = <<"public">>
    /\ "warning" \in DOMAIN headers

\* a decodable 200 entry with the heuristic's headers that has not expired at
\* time t and matches req, req having no Cache-Control
WithinDelta(e, req, t) ==
    /\ e.outcome = "ok"
    /\ e.response.status_code = 200
    /\ "date" \in DOMAIN e.response.headers
    /\ HGet(e.response.headers, "cache-control") = <<"public">>
    /\ "expires" \in DOMAIN e.response.headers
    /\ t < DateVal(e.response.headers["expires"])
    /\ VaryMatches(e, req)
    /\ "cache-control" \notin DOMAIN req.headers

\* the server has answered a request with a cacheable method in this step
AnsweredStep == pc = "L291" /\ pc' # "raised" /\ sent_request.method \in {"GET"}

\* C20 as the specification words it: with the flat-TTL heuristic the response
\* to a request with a cacheable method has Expires = now + delta,
\* Cache-Control: public and a Warning when the cache-write decision is made and
\* when the caller gets it; a 200 response with a Date is stored, by a CacheSet
\* whose entry is written as the response was read; and a GET before the
\* Expires is served the entry from the cache.
C20_EveryDated200 ==
    [][ /\ AnsweredStep => FlatTTLHeaders(server_response'.headers, now)
        /\ AnsweredStep /\ server_response'.status_code = 200
           /\ "date" \in DOMAIN server_response'.headers
            => /\ yielded'.kind = "CacheSet"
               /\ yielded'.response = server_response'
        /\ \A i \in 1..Len(streams) : CallbackStep(i) => WrittenAsRead(i, FALSE)
        /\ LookupStep /\ WithinDelta(EntryOf(store, yielded.key), request, now)
            => ServedAsIs(EntryOf(store, yielded.key)) ]_vars

\* C20, amended: the same, the 200 response with a Date that is stored being
\* one without "*" in its Vary, to a request without no-store.
C20_FlatTTL ==
    [][ /\ AnsweredStep => FlatTTLHeaders(server_response'.headers, now)
        /\ AnsweredStep /\ server_response'.status_code = 200
           /\ "date" \in DOMAIN server_response'.headers
           /\ ~HasTok(HGetStr(server_response'.headers, "vary"), "*")
           /\ "no-store" \notin DOMAIN parse_cache_control_directives(sent_request.headers)
            => /\ yielded'.kind = "CacheSet"
               /\ yielded'.response = server_response'
        /\ \A i \in 1..Len(streams) : CallbackStep(i) => WrittenAsRead(i, FALSE)
        /\ LookupStep /\ WithinDelta(EntryOf(store, yielded.key), request, now)
            => ServedAsIs(EntryOf(store, yielded.key)) ]_vars

C20_Witness ==
    /\ heuristic = "ExpiresAfter"
    /\ pc = "returned"
    /\ result.source = "CACHE"
    /\ emitted = <<"CacheGet">>
    /\ result.response.status_code = 200
    /\ FlatTTLHeaders(result.response.headers, 0)
    /\ "etag" \notin DOMAIN result.response.headers
    /\ StreamContent(result.response.stream) = <<"hello">>

(***************************************************************************)
(* The claims checked on SpecThreads                                       *)
(***************************************************************************)
\* the threads inside the with block of set or delete
InCriticalSection == {t \in DOMAIN threads : threads[t].pc \in {"L26", "L32", "L33"}}

\* C16: with the lock made lazily by get_lock, no two threads are inside the
\* with block of set or delete at the same time, and no delete fails because
\* another mutation took its key between its test and its pop.
C16_MutationsSerialized ==
    /\ Cardinality(InCriticalSection) <= 1
    /\ \A t \in DOMAIN threads : threads[t].exception = "none"

\* thread t has missed in this step, the store having no entry for the key
MissStep(t) ==
    /\ threads[t].pc = "get"
    /\ threads'[t] # threads[t]
    /\ get_cache_key(ThreadRequestOf(t)) \notin DOMAIN store

\* thread t has performed its CacheSet in this step
SetStep(t) ==
    /\ threads[t].pc = "L26"
    /\ threads'[t].pc = "idle"

\* the store holds for the key exactly what this action's CacheSet writes
HoldsEntryOf(data, action) ==
    /\ action.key \in DOMAIN data
    /\ data[action.key] = StoreDumps(action.response, action.vary_header_values,
                                     StreamContent(action.response.stream))
    /\ LET got == cache_get(data, action.key)
       IN /\ got.outcome = "ok"
          /\ got.response.status_code = action.response.status_code
          /\ StreamContent(got.response.stream) = StreamContent(action.response.stream)
          /\ HGet(got.response.headers, "etag") = HGet(action.response.headers, "etag")

\* C17: a thread whose lookup misses emits its own MakeRequest whatever the
\* other thread is doing, and after each CacheSet the store holds for the key
\* exactly the entry of that CacheSet, the latest one, whole.
C17_LastWriterWins ==
    [][\A t \in Threads :
          /\ MissStep(t) => /\ threads'[t].pc = "send"
                            /\ threads'[t].emitted = <<"CacheGet", "MakeRequest">>
          /\ SetStep(t) => /\ HoldsEntryOf(store', threads[t].action)
                           /\ DOMAIN store' = DOMAIN store \cup {threads[t].action.key}
      ]_vars

\* both threads missed, each sent its own request and got a different answer,
\* both have performed their CacheSet, and the store holds the second answer
C17_Witness ==
    /\ DOMAIN threads = Threads
    /\ \A t \in Threads : /\ threads[t].pc = "idle"
                          /\ threads[t].calls = 1
                          /\ threads[t].emitted = <<"CacheGet", "MakeRequest", "CacheSet">>
    /\ StreamContent(threads["t1"].response.stream) = <<"hello">>
    /\ StreamContent(threads["t2"].response.stream) = <<"world">>
    /\ Url \in DOMAIN store
    /\ StreamContent(cache_get(store, Url).response.stream) = <<"world">>

(***************************************************************************)
(* The claims checked on SpecAsync                                         *)
(***************************************************************************)
\* nothing but the driver's own suspension changes in this step
OnlyAwaiting ==
    UNCHANGED <<pure_vars, now, cache_etags, heuristic, store, streams, pc, request,
                sent_request, cached_response, server_response, yielded, emitted, result>>

Updates == update_headers(heuristic, server_response.headers,
                          server_response.status_code, now)

\* C21: apply leaves every header the updates do not name as it was and gives
\* each header the updates name the updates' value; Warning is set, to the
\* heuristic's value, exactly when the updates are not empty and warning() is
\* not None; with empty updates the headers are those given and warning() was
\* not called.
C21_ApplyMerges ==
    (phase = "applied" /\ applied.exception = "none") =>
        LET given == server_response.headers
        IN /\ \A name \in DOMAIN Updates : applied.headers[name] = Updates[name]
           /\ \A name \in DOMAIN given \ (DOMAIN Updates \cup {"warning"}) :
                 applied.headers[name] = given[name]
           /\ DOMAIN applied.headers \subseteq DOMAIN given \cup DOMAIN Updates \cup {"warning"}
           /\ IF DOMAIN Updates # {} /\ warning(heuristic) # None
              THEN applied.headers["warning"] = warning(heuristic)
              ELSE "warning" \notin DOMAIN applied.headers
           /\ applied.warning_called = (DOMAIN Updates # {})
           /\ DOMAIN Updates = {} => applied.headers = given

\* updates made by a heuristic whose warning() is None: Expires set, no Warning
C21_Witness ==
    /\ phase = "applied"
    /\ heuristic = "LastModified"
    /\ "expires" \in DOMAIN applied.headers
    /\ "expires" \notin DOMAIN server_response.headers
    /\ applied.warning_called
    /\ "warning" \notin DOMAIN applied.headers

\* the conditions the claim lists, on the response of this state
ListedConditions ==
    LET given == server_response.headers
    IN /\ "expires" \notin DOMAIN given
       /\ ("cache-control" \notin DOMAIN given \/ given["cache-control"] = <<"public">>)
       /\ server_response.status_code \in {200, 203, 204, 206, 300, 301, 404, 405, 410, 414, 501}
       /\ "date" \in DOMAIN given
       /\ "last-modified" \in DOMAIN given

\* ten times the lifetime: Date - Last-Modified, kept within 0 and ten days
TenfoldLifetime ==
    LET delta == DateVal(server_response.headers["date"])
                 - DateVal(server_response.headers["last-modified"])
    IN IF delta < 0 THEN 0 ELSE IF delta > 864000 THEN 864000 ELSE delta

\* C22: the Last-Modified heuristic returns no update unless the conditions
\* listed all hold; an update is the Expires header alone, a whole number of
\* seconds e with Date + lifetime - 1 < e <= Date + lifetime for lifetime =
\* (Date - Last-Modified) / 10 within [0, 86400]; and there is no update when
\* lifetime <= max(0, now - Date).
C22_LastModified ==
    (phase = "applied" /\ heuristic = "LastModified") =>
        /\ ~ListedConditions => (DOMAIN Updates = {} /\ applied.exception = "none")
        /\ (ListedConditions /\ DateOk(server_response.headers["date"])) =>
                applied.exception = "none"
        /\ DOMAIN Updates # {} =>
             /\ ListedConditions
             /\ DOMAIN Updates = {"expires"}
             /\ DateOk(server_response.headers["date"])
             /\ DateOk(server_response.headers["last-modified"])
             /\ DateOk(Updates["expires"])
             /\ LET since_date == DateVal(Updates["expires"])
                                  - DateVal(server_response.headers["date"])
                IN /\ 10 * since_date <= TenfoldLifetime
                   /\ TenfoldLifetime < 10 * since_date + 10
             /\ applied.headers = HUpdate(server_response.headers, Updates)
        /\ ( /\ ListedConditions
             /\ DateOk(server_response.headers["date"])
             /\ DateOk(server_response.headers["last-modified"]) ) =>
                LET age == IF now > DateVal(server_response.headers["date"])
                           THEN now - DateVal(server_response.headers["date"]) ELSE 0
                IN (DOMAIN Updates = {}) <=> (TenfoldLifetime <= 10 * age)

\* a year-old document, one second short of a day after its Date: the
\* lifetime is the 24 hours' limit and Expires is Date + 86400
C22_Witness ==
    /\ phase = "applied"
    /\ heuristic = "LastModified"
    /\ server_response.headers = ("date" :> NumTok(864010)) @@ ("last-modified" :> NumTok(0))
    /\ now = 950409
    /\ applied.headers = server_response.headers @@ ("expires" :> NumTok(950410))

(***************************************************************************)
(* The claims checked on SpecPhaseA                                        *)
(***************************************************************************)
\* a decodable entry that matches the request's headers and is no permanent
\* redirect
Candidate(e, req) ==
    /\ e.outcome = "ok"
    /\ VaryMatches(e, req)
    /\ e.response.status_code \notin {301, 308}

\* the evaluation goes on to the server with the request as the caller gave it
SentUnconditional ==
    /\ pc' = "L291"
    /\ cached_response' = NoResponse
    /\ sent_request' = request
    /\ yielded' = MakeRequest(request)

\* the evaluation goes on to the server with the entry's validator, the entry
\* left where it is
Revalidated(e) ==
    /\ pc' = "L291"
    /\ cached_response' = e.response
    /\ yielded'.kind = "MakeRequest"
    /\ yielded'.request = sent_request'
    /\ sent_request'.headers =
           HUpdate(HUpdate(request.headers,
                           "if-none-match" :> e.response.headers["etag"]),
                   Opt("if-modified-since", HGet(e.response.headers, "last-modified")))
    /\ emitted' = <<"CacheGet", "MakeRequest">>
    /\ store' = store

\* the step that enacts the CacheDelete yielded at this point of Phase A: the
\* entry is gone and the request goes to the server unconditionally
PurgedAt(point) ==
    (pc = point /\ pc' # point) =>
        /\ yielded.key \notin DOMAIN store'
        /\ SentUnconditional
        /\ emitted' = <<"CacheGet", "CacheDelete", "MakeRequest">>

\* C23: a matching entry that is no 301/308 and has no Date is never served;
\* without an ETag a CacheDelete for its key is emitted, and enacted before an
\* unconditional MakeRequest; with an ETag the entry stays in the store and
\* the MakeRequest carries If-None-Match.
C23_UndatedNotServed ==
    [][ /\ LET e == EntryOf(store, yielded.key)
           IN (LookupStep /\ Candidate(e, request)
                  /\ "date" \notin DOMAIN e.response.headers)
                 => /\ pc' # "returned"
                    /\ IF "etag" \notin DOMAIN e.response.headers
                       THEN /\ pc' = "L208"
                            /\ yielded' = CacheDelete(request.url)
                            /\ emitted' = <<"CacheGet", "CacheDelete">>
                       ELSE Revalidated(e)
        /\ PurgedAt("L208") ]_vars

\* the CacheDelete of an entry with neither Date nor ETag has been emitted
C23_Witness ==
    /\ pc = "L208"
    /\ yielded = CacheDelete(Url)
    /\ LET e == EntryOf(store, Url)
       IN /\ e.outcome = "ok"
          /\ e.response.status_code = 200
          /\ DOMAIN e.response.headers \cap {"date", "etag"} = {}

\* a candidate entry whose Date is a date
Dated(e, req) ==
    /\ Candidate(e, req)
    /\ "date" \in DOMAIN e.response.headers
    /\ DateOk(e.response.headers["date"])

\* the value of a directive of the request's Cache-Control, -1 without it
Directive(req, name) ==
    LET cc == parse_cache_control_directives(req.headers)
    IN IF name \in DOMAIN cc THEN cc[name][1] ELSE 0 - 1

\* the lifetime the entry's own headers give: its max-age, else Expires - Date
\* when that is a date and later, else 0
OwnLifetime(e) ==
    LET headers == e.response.headers
        cc == parse_cache_control_directives(headers)
    IN IF "max-age" \in DOMAIN cc THEN cc["max-age"][1]
       ELSE IF "expires" \in DOMAIN headers /\ DateOk(headers["expires"])
               /\ DateVal(headers["expires"]) > DateVal(headers["date"])
       THEN DateVal(headers["expires"]) - DateVal(headers["date"])
       ELSE 0

\* the time since the entry's Date, 0 for a Date ahead of the clock
TimeSinceDate(e, t) ==
    IF t > DateVal(e.response.headers["date"])
    THEN t - DateVal(e.response.headers["date"]) ELSE 0

\* the lifetime and the age the decision on entry e goes by
Lifetime(e, req) ==
    IF Directive(req, "max-age") >= 0 THEN Directive(req, "max-age") ELSE OwnLifetime(e)

Age(e, req, t) ==
    TimeSinceDate(e, t)
    + (IF Directive(req, "min-fresh") >= 0 THEN Directive(req, "min-fresh") ELSE 0)

\* the lookup's step ended the evaluation with the entry, from the cache
Served(e) == ServedAsIs(e) /\ store' = store

\* C24: a dated entry is served from the cache exactly when its lifetime is
\* greater than its age, not when they are equal; a stale one without ETag
\* has a CacheDelete for its key emitted, enacted before an unconditional
\* MakeRequest; a stale one with an ETag stays in the store and is revalidated.
C24_StrictlyFresh ==
    [][ /\ LET e == EntryOf(store, yielded.key)
           IN (LookupStep /\ Dated(e, request)) =>
                 IF Lifetime(e, request) > Age(e, request, now) THEN Served(e)
                 ELSE /\ pc' # "returned"
                      /\ IF "etag" \notin DOMAIN e.response.headers
                         THEN /\ pc' = "L258"
                              /\ yielded' = CacheDelete(request.url)
                              /\ emitted' = <<"CacheGet", "CacheDelete">>
                              /\ store' = store
                         ELSE Revalidated(e)
        /\ PurgedAt("L258") ]_vars

\* an entry with max-age=1 and no ETag, one second old: lifetime equal to age,
\* and the CacheDelete for it emitted
C24_Witness ==
    /\ pc = "L258"
    /\ now = 1
    /\ request.headers = <<>>
    /\ yielded = CacheDelete(Url)
    /\ LET e == EntryOf(store, Url)
       IN /\ Dated(e, request)
          /\ DateVal(e.response.headers["date"]) = 0
          /\ HGet(e.response.headers, "cache-control") = MaxAge
          /\ "etag" \notin DOMAIN e.response.headers

\* C25: with max-age=N, N > 0, in the request's Cache-Control a dated entry is
\* served from the cache exactly when N is greater than its age, whatever
\* lifetime its own max-age or Expires gives: an entry past its own lifetime is
\* served when N is longer, one within it is not when N is shorter.
C25_RequestMaxAge ==
    [][ LET e == EntryOf(store, yielded.key)
            N == Directive(request, "max-age")
        IN (LookupStep /\ Dated(e, request) /\ N > 0) =>
              /\ Served(e) <=> N > Age(e, request, now)
              /\ (OwnLifetime(e) <= TimeSinceDate(e, now) /\ TimeSinceDate(e, now) < N)
                    => Served(e)
              /\ (N <= TimeSinceDate(e, now) /\ TimeSinceDate(e, now) < OwnLifetime(e))
                    => pc' # "returned" ]_vars

\* max-age=2 in the request: an entry with max-age=1, one second old, has been
\* served from the cache
C25_Witness ==
    /\ pc = "returned"
    /\ result.source = "CACHE"
    /\ now = 1
    /\ Directive(request, "max-age") = 2
    /\ LET e == EntryOf(store, Url)
       IN /\ Dated(e, request)
          /\ DateVal(e.response.headers["date"]) = 0
          /\ OwnLifetime(e) = 1

\* C26: with no max-age in the request a dated entry is served from the cache
\* exactly when the lifetime of its own headers (max-age, else Expires - Date
\* if that is a date and later, else 0) is greater than max(0, now - Date)
\* plus the request's min-fresh; an entry with max-age is judged by it though
\* its Expires is later.
C26_OwnLifetime ==
    [][ LET e == EntryOf(store, yielded.key)
            headers == e.response.headers
            min_fresh == IF Directive(request, "min-fresh") >= 0
                         THEN Directive(request, "min-fresh") ELSE 0
        IN (LookupStep /\ Dated(e, request) /\ Directive(request, "max-age") < 0) =>
              /\ Served(e) <=> OwnLifetime(e) > TimeSinceDate(e, now) + min_fresh
              /\ ( /\ HGet(headers, "cache-control") = MaxAge
                   /\ TimeSinceDate(e, now) + min_fresh >= 1 )
                    => pc' # "returned" ]_vars

\* an entry with max-age=1 and an Expires two seconds after its Date, one
\* second old, was not served but revalidated
C26_Witness ==
    /\ pc = "L291"
    /\ now = 1
    /\ request.headers = <<>>
    /\ emitted = <<"CacheGet", "MakeRequest">>
    /\ LET e == EntryOf(store, Url)
       IN /\ Dated(e, request)
          /\ DateVal(e.response.headers["date"]) = 0
          /\ HGet(e.response.headers, "cache-control") = MaxAge
          /\ HGet(e.response.headers, "expires") = NumTok(2)
          /\ cached_response = e.response

(***************************************************************************)
(* Further claims checked on Spec                                          *)
(***************************************************************************)
\* the step enacts a CacheSet or a CacheDelete for the key, in the handler or
\* in the callback of a response body read to its end
WritesKey(key) ==
    \/ pc \in {"L208", "L258", "L297", "L340"} /\ yielded.kind = "CacheDelete"
       /\ yielded.key = key
    \/ pc \in {"L325", "L340"} /\ yielded.kind = "CacheSet" /\ yielded.key = key
    \/ \E i \in 1..Len(streams) : CallbackStep(i) /\ streams[i].key = key

\* C27: a lookup that finds an entry whose vary data the request's headers do
\* not match emits no CacheDelete and leaves the store as it is; the request
\* goes to the server as the caller gave it, with no conditional header; and
\* an entry changes only in a step that enacts a CacheSet or a CacheDelete for
\* its key.
C27_MismatchIgnored ==
    [][ /\ LET e == EntryOf(store, yielded.key)
           IN (LookupStep /\ e.outcome = "ok" /\ ~VaryMatches(e, request)) =>
                 /\ SentUnconditional
                 /\ emitted' = <<"CacheGet", "MakeRequest">>
                 /\ DOMAIN sent_request'.headers
                       \cap {"if-none-match", "if-modified-since"} = {}
                 /\ store' = store
        /\ \A key \in DOMAIN store :
              (key \notin DOMAIN store' \/ store'[key] # store[key]) => WritesKey(key) ]_vars

\* an entry stored for Accept: text/plain, a request with Accept: text/html
\* on its way to the server, the entry still in the store
C27_Witness ==
    /\ pc = "L291"
    /\ emitted = <<"CacheGet", "MakeRequest">>
    /\ HGet(request.headers, "accept") = <<"text/html">>
    /\ sent_request = request
    /\ LET e == EntryOf(store, Url)
       IN /\ e.outcome = "ok"
          /\ HGet(e.vary, "accept") = <<"text/plain">>

(***************************************************************************)
(* Further claims checked on SpecHeuristic                                 *)
(***************************************************************************)
\* what the origin server may have answered to this method at some time
Answers(method) == UNION { ServerResponses(t, method) : t \in 0..MaxTime }

\* C28: while a request whose method is not cacheable is evaluated, with a
\* heuristic configured, the engine emits MakeRequest and after it at most
\* the CacheDelete of an invalidating method: no CacheGet, no CacheSet, no
\* CloseResponseStream; the response it returns is the server's with the
\* headers the server sent, and the source is SERVER.
C28_UncacheableMethod ==
    (request # NoRequest /\ request.method \notin cacheable_methods) =>
        /\ emitted \in {<<>>, <<"MakeRequest">>, <<"MakeRequest", "CacheDelete">>}
        /\ "CacheDelete" \in Range(emitted) => is_invalidating_method(request.method)
        /\ pc # "idle" => sent_request = request /\ cached_response = NoResponse
        /\ pc = "returned" =>
              /\ server_response \in Answers(request.method)
              /\ result.response = WithFromCache(server_response, "SERVER")
              /\ result.source = "SERVER"
              /\ result.exception = "none"

\* a POST answered 200 with Date and max-age, returned without Expires while
\* the heuristic that would add one is configured
C28_Witness ==
    /\ pc = "returned"
    /\ heuristic = "ExpiresAfter"
    /\ request.method = "POST"
    /\ emitted = <<"MakeRequest">>
    /\ result.response.status_code = 200
    /\ "date" \in DOMAIN result.response.headers
    /\ "expires" \notin DOMAIN result.response.headers
    /\ result.source = "SERVER"

(***************************************************************************)
(* Further claims checked on Spec: invalidation and no-store               *)
(***************************************************************************)
\* the server has answered the request the policy sent
Answered == pc = "L291" /\ pc' # "raised"

\* C29: when the server answers, the policy yields CacheDelete for the key
\* exactly when the method is PUT, PATCH or DELETE and the status is not
\* 4xx/5xx; a PUT, PATCH or DELETE answered with an error, and a POST with
\* any answer, return with MakeRequest the only action emitted and the store
\* as it was.
C29_InvalidationIff ==
    [][ Answered =>
          /\ (yielded'.kind = "CacheDelete" /\ pc' = "L297")
                <=> /\ sent_request.method \in {"PUT", "PATCH", "DELETE"}
                    /\ ~(400 <= server_response'.status_code
                          /\ server_response'.status_code <= 599)
          /\ pc' = "L297" => yielded'.key = request.url
          /\ (request.method \notin cacheable_methods /\ pc' # "L297") =>
                /\ pc' = "returned"
                /\ emitted' = <<"MakeRequest">>
                /\ store' = store ]_vars

\* a DELETE answered 503 has returned and the entry stored for the URL is
\* still there
C29_Witness ==
    /\ pc = "returned"
    /\ request.method = "DELETE"
    /\ server_response.status_code = 503
    /\ emitted = <<"MakeRequest">>
    /\ EntryOf(store, request.url).outcome = "ok"

\* no-store in the response's or the request's Cache-Control
NoStore(response, req) ==
    \/ "no-store" \in DOMAIN parse_cache_control_directives(response.headers)
    \/ "no-store" \in DOMAIN parse_cache_control_directives(req.headers)

\* C30: when the server answers a cacheable request with a cacheable status
\* other than 304 and no-store is in the response's or the request's
\* Cache-Control, no CacheSet is emitted; if the store holds an entry for the
\* key the policy yields CacheDelete for it, and enacting it leaves the store
\* without the entry; if the store holds none the evaluation returns with no
\* further action.
C30_NoStorePurges ==
    [][ /\ ( /\ Answered
             /\ request.method \in cacheable_methods
             /\ server_response'.status_code \in cacheable_status_codes
             /\ NoStore(server_response', sent_request) ) =>
               /\ yielded'.kind # "CacheSet"
               /\ IF request.url \in DOMAIN store
                  THEN pc' = "L340" /\ yielded' = CacheDelete(request.url)
                  ELSE pc' = "returned" /\ emitted' = emitted
        /\ (pc = "L340" /\ yielded.kind = "CacheDelete") =>
               yielded.key \notin DOMAIN store' ]_vars

(***************************************************************************)
(* The claims checked on SpecCacheAction                                   *)
(***************************************************************************)
\* a response cache_response_action gets past its status, no-store and
\* Vary: * tests with
Storable(response, req) ==
    /\ response.status_code \in cacheable_status_codes
    /\ ~NoStore(response, req)
    /\ ~HasTok(HGetStr(response.headers, "vary"), "*")

\* the response's max-age is above 0
PositiveMaxAge(response) ==
    LET cc == parse_cache_control_directives(response.headers)
    IN "max-age" \in DOMAIN cc /\ cc["max-age"][1] > 0

\* C31: for a response with a cacheable status, no no-store and no Vary: *,
\* a CacheSet is the action exactly when cache_etags is on and the response
\* has an ETag, or the status is 301 or 308, or the response has a Date and
\* either max-age > 0 or a non-empty Expires; in every other case there is
\* no action.
C31_StoredOnlyIf ==
    (phase = "cache_action" /\ Storable(server_response, sent_request)) =>
        IF \/ cache_etags /\ "etag" \in DOMAIN server_response.headers
           \/ server_response.status_code \in {301, 308}
           \/ /\ "date" \in DOMAIN server_response.headers
              /\ \/ PositiveMaxAge(server_response)
                 \/ HGet(server_response.headers, "expires") \notin {None, <<>>}
        THEN yielded.kind = "CacheSet"
        ELSE yielded = NoAction

(***************************************************************************)
(* Further claims checked on Spec: how a new response is stored            *)
(***************************************************************************)
\* the policy yields the CacheSet for a new response in this step
NewCacheSet == pc' = "L340" /\ pc # "L340" /\ yielded'.kind = "CacheSet"

\* the handler enacts the CacheSet for a new response in this step
EnactsNewCacheSet == pc = "L340" /\ yielded.kind = "CacheSet" /\ pc' = "returned"

\* the CacheSet is immediate, of the response without its body
StoresBodyless(action) ==
    /\ ~action.deferred
    /\ action.response.stream.plain
    /\ StreamContent(action.response.stream) = <<>>

\* the store holds for the key the response of this status, with no body
HoldsBodyless(data, key, status_code) ==
    LET e == EntryOf(data, key)
    IN /\ e.outcome = "ok"
       /\ e.response.status_code = status_code
       /\ StreamContent(e.response.stream) = <<>>

\* C32 as the specification words it: the CacheSet for a 301 or 308 is
\* immediate and carries an empty body, and the entry is in the store when
\* the request returns; the CacheSet for every other response is deferred.
C32_RedirectsImmediate ==
    [][ /\ NewCacheSet =>
              IF yielded'.response.status_code \in {301, 308}
              THEN StoresBodyless(yielded')
              ELSE yielded'.deferred
        /\ (EnactsNewCacheSet /\ yielded.response.status_code \in {301, 308}) =>
              HoldsBodyless(store', yielded.key, yielded.response.status_code) ]_vars

\* C32, amended: the CacheSet for a 301 or 308 is immediate and carries an
\* empty body, and the entry is in the store when the request returns with
\* no read of the body pending, unless cache_etags is on and the response
\* has an ETag; that response, like every response of another status, is
\* stored through a deferred CacheSet that carries the server's response:
\* when the request returns the store is as it was and the caller holds the
\* stream whose reading will write the entry, or, the body having been read
\* already, the entry is written with that body.
C32_RedirectsWithoutETag ==
    [][ /\ NewCacheSet =>
              IF /\ yielded'.response.status_code \in {301, 308}
                 /\ ~(cache_etags /\ "etag" \in DOMAIN yielded'.response.headers)
              THEN StoresBodyless(yielded')
              ELSE yielded'.deferred /\ yielded'.response = server_response'
        /\ EnactsNewCacheSet =>
              IF ~yielded.deferred
              THEN /\ HoldsBodyless(store', yielded.key, yielded.response.status_code)
                   /\ yielded.response.status_code \in {301, 308}
                   /\ streams' = streams
              ELSE IF yielded.response.stream.plain
              THEN HoldsEntryOf(store', yielded) /\ streams' = streams
              ELSE store' = store /\ Len(streams') = Len(streams) + 1 ]_vars

\* a 308 has come back to the caller, who holds no stream to read, and the
\* store has it without a body
C32_Witness ==
    /\ pc = "returned"
    /\ result.response.status_code = 308
    /\ emitted = <<"CacheGet", "MakeRequest", "CacheSet">>
    /\ streams = <<>>
    /\ HoldsBodyless(store, request.url, 308)
    /\ StreamContent(result.response.stream) # <<>>

\* C33: every CacheSet carries a vary map whose keys are exactly the names
\* the Vary header of the response it stores lists, none without a Vary
\* header, and whose values are the values of those headers in the caller's
\* request, None for a header the caller did not send.
C33_VaryOfCaller ==
    [][ yielded'.kind = "CacheSet" /\ yielded' # yielded =>
          /\ DOMAIN yielded'.vary_header_values
                = (IF "vary" \in DOMAIN yielded'.response.headers
                   THEN VaryNames(yielded'.response.headers["vary"]) ELSE {})
          /\ \A h \in DOMAIN yielded'.vary_header_values :
                yielded'.vary_header_values[h] = HGet(request'.headers, h) ]_vars

(***************************************************************************)
(* Further claims checked on Spec: the 304 branch                          *)
(***************************************************************************)
\* the position of the first action of this kind among those emitted, 0 if
\* there is none
FirstOf(kind) ==
    IF kind \in Range(emitted)
    THEN CHOOSE i \in 1..Len(emitted) :
            emitted[i] = kind /\ \A j \in 1..(i - 1) : emitted[j] # kind
    ELSE 0

\* C34: a 304 answer to a request with a cacheable method makes the policy
\* yield CloseResponseStream for that response before any CacheSet; the
\* handler drains the stream, and then, when Phase A supplied no cached
\* response, the evaluation returns the 304 with source SERVER, no CacheSet
\* emitted and the store as it was, and otherwise the policy yields its
\* CacheSet; an evaluation that returns after a 304 has emitted its
\* CloseResponseStream ahead of any CacheSet.
C34_CloseBefore ==
    [][ /\ (Answered /\ request.method \in cacheable_methods
                     /\ server_response'.status_code = 304) =>
              /\ pc' = "L312"
              /\ yielded' = CloseResponseStream(server_response')
              /\ emitted' = Append(emitted, "CloseResponseStream")
              /\ "CacheSet" \notin Range(emitted)
        /\ pc = "L312" =>
              /\ server_response.status_code = 304
              /\ server_response'.stream.chunks = <<>>
              /\ IF cached_response = NoResponse
                 THEN /\ pc' = "returned"
                      /\ result'.response = WithFromCache(server_response', "SERVER")
                      /\ result'.source = "SERVER"
                      /\ emitted' = emitted
                      /\ store' = store
                 ELSE /\ pc' = "L325"
                      /\ yielded'.kind = "CacheSet"
                      /\ emitted' = Append(emitted, "CacheSet")
        /\ (pc = "returned" /\ server_response.status_code = 304
                            /\ request.method \in cacheable_methods) =>
              /\ FirstOf("CloseResponseStream") > 0
              /\ FirstOf("CacheSet") \in {0} \cup
                    {i \in 1..Len(emitted) : i > FirstOf("CloseResponseStream")} ]_vars

\* a GET that bypassed the lookup was answered 304: the stream was closed,
\* nothing was written and the caller has the 304
C34_Witness ==
    /\ pc = "returned"
    /\ cached_response = NoResponse
    /\ server_response.status_code = 304
    /\ emitted = <<"MakeRequest", "CloseResponseStream">>
    /\ result.response.status_code = 304
    /\ result.source = "SERVER"

(***************************************************************************)
(* Further claims checked on SpecPhaseA: the request that is sent          *)
(***************************************************************************)
\* the policy gets to its MakeRequest in this step
SendStep == pc # "L291" /\ pc' = "L291"

\* C35: the request of the MakeRequest has the caller's method and URL, and
\* the caller's headers with If-None-Match set to the ETag and
\* If-Modified-Since to the Last-Modified of the entry Phase A returned,
\* each exactly when that entry has the header; no header is added when
\* Phase A returned no entry; the caller's request is as it was.
C35_ConditionalRequest ==
    [][ /\ SendStep =>
              LET cached == cached_response'.headers
                  added  == {h \in DOMAIN sent_request'.headers :
                               HGet(request'.headers, h) # sent_request'.headers[h]}
              IN /\ yielded' = MakeRequest(sent_request')
                 /\ sent_request'.method = request'.method
                 /\ sent_request'.url = request'.url
                 /\ \A h \in DOMAIN request'.headers \ added :
                        sent_request'.headers[h] = request'.headers[h]
                 /\ DOMAIN request'.headers \subseteq DOMAIN sent_request'.headers
                 /\ "if-none-match" \in added <=> "etag" \in DOMAIN cached
                 /\ "if-modified-since" \in added <=> "last-modified" \in DOMAIN cached
                 /\ added \subseteq {"if-none-match", "if-modified-since"}
                 /\ "etag" \in DOMAIN cached =>
                        sent_request'.headers["if-none-match"] = cached["etag"]
                 /\ "last-modified" \in DOMAIN cached =>
                        sent_request'.headers["if-modified-since"] = cached["last-modified"]
                 /\ cached_response' = NoResponse => sent_request' = request'
                 /\ cached_response' # NoResponse =>
                        cached_response' = EntryOf(store, request'.url).response
        /\ pc # "idle" => request' = request ]_vars

\* a request with min-fresh on its way to the server with both validators of
\* the entry, the caller's request without them
C35_Witness ==
    /\ pc = "L291"
    /\ DOMAIN request.headers = {"cache-control"}
    /\ {"etag", "last-modified"} \subseteq DOMAIN cached_response.headers
    /\ DOMAIN sent_request.headers = {"cache-control", "if-none-match", "if-modified-since"}
    /\ sent_request.headers["if-modified-since"] = NumTok(0)
    /\ sent_request.headers["cache-control"] = request.headers["cache-control"]

\* C40: a cached response Phase B has been given has an ETag, so a request
\* sent with If-Modified-Since has If-None-Match too; a matching entry with
\* Last-Modified and no ETag that is not served (stale, or without Date) has
\* CacheDelete emitted for it, after which it is gone and the caller's
\* request goes to the server as it is.
C40_ETagOrNothing ==
    [][ /\ pc = "L291" =>
              /\ cached_response # NoResponse =>
                    "etag" \in DOMAIN cached_response.headers
              /\ "if-modified-since" \in DOMAIN sent_request.headers =>
                    "if-none-match" \in DOMAIN sent_request.headers
        /\ LET e == EntryOf(store, yielded.key)
           IN ( /\ LookupStep
                /\ Candidate(e, request)
                /\ "last-modified" \in DOMAIN e.response.headers
                /\ "etag" \notin DOMAIN e.response.headers
                /\ pc' \notin {"returned", "raised"} ) =>
                   /\ pc' \in {"L208", "L258"}
                   /\ yielded' = CacheDelete(request.url)
                   /\ store' = store
        /\ PurgedAt("L208")
        /\ PurgedAt("L258") ]_vars

\* a stale entry with Last-Modified and no ETag was purged and the request
\* has gone out without conditional headers
C40_Witness ==
    /\ pc = "L291"
    /\ emitted = <<"CacheGet", "CacheDelete", "MakeRequest">>
    /\ store = <<>>
    /\ cached_response = NoResponse
    /\ sent_request = request

(***************************************************************************)
(* Further claims checked on SpecHeuristic: where the heuristic's headers  *)
(* are                                                                     *)
(***************************************************************************)
\* C36: with the flat-TTL heuristic, a response of any status to a request
\* with a cacheable method has the heuristic's headers as soon as the policy
\* has it: in the CloseResponseStream of a 304, in the CacheSet the policy
\* decides on, and in the response the caller gets from the server; the
\* entry merged from a 304, as set, as returned and as stored, has them; and
\* so has the entry of an immediate CacheSet and the entry a read body
\* leaves.
C36_HeuristicFirst ==
    [][ /\ AnsweredStep =>
              /\ FlatTTLHeaders(server_response'.headers, now)
              /\ pc' \in {"L312", "L340", "returned"}
              /\ pc' = "L312" => /\ server_response'.status_code = 304
                                 /\ yielded' = CloseResponseStream(server_response')
              /\ (pc' = "L340" /\ yielded'.kind = "CacheSet") =>
                    /\ yielded'.response.headers = server_response'.headers
                    /\ yielded'.response.status_code = server_response'.status_code
              /\ pc' = "returned" =>
                    result'.response = WithFromCache(server_response', "SERVER")
        /\ (pc = "L312" /\ pc' = "L325") =>
              FlatTTLHeaders(yielded'.response.headers, now)
        /\ (pc \in {"L312", "L325", "L340"} /\ pc' = "returned") =>
              /\ FlatTTLHeaders(result'.response.headers, now)
              /\ (yielded.kind = "CacheSet" /\ request.url \in DOMAIN store'
                     /\ store' # store) =>
                    FlatTTLHeaders(EntryOf(store', request.url).response.headers, now)
        /\ \A i \in 1..Len(streams) :
              CallbackStep(i) =>
                \E t \in 0..MaxTime :
                   FlatTTLHeaders(EntryOf(store', streams[i].key).response.headers, t) ]_vars

\* an entry stored at time 0 with the heuristic's Expires was revalidated at
\* time 1 and answered 304: the merged response the caller gets and the
\* entry in the store have the Expires the heuristic gave the 304
C36_Witness ==
    /\ pc = "returned"
    /\ heuristic = "ExpiresAfter"
    /\ now = 1
    /\ server_response.status_code = 304
    /\ result.source = "CACHE"
    /\ HGet(cached_response.headers, "expires") = NumTok(ExpiresAfterDelta)
    /\ FlatTTLHeaders(result.response.headers, 1)
    /\ FlatTTLHeaders(EntryOf(store, request.url).response.headers, 1)

(***************************************************************************)
(* The claims checked on SpecDelivered                                     *)
(***************************************************************************)
\* how many of the actions emitted are of this kind
Emitted(kind) == Cardinality({i \in 1..Len(emitted) : emitted[i] = kind})

Good(e, req, t) ==
    /\ e.outcome = "ok"
    /\ VaryMatches(e, req)
    /\ \/ e.response.status_code \in {301, 308}
       \/ Dated(e, req) /\ Lifetime(e, req) > Age(e, req, t)

\* C38: a lookup that finds an entry Phase A serves ends the evaluation at
\* once with that entry and source CACHE, CacheGet the only action emitted,
\* the store and the streams the caller holds as they were; nothing else
\* returns straight from the lookup; and no CacheSet is ever emitted before
\* the MakeRequest.
C38_HitIsReadOnly ==
    [][ /\ (LookupStep /\ Good(EntryOf(store, yielded.key), request, now)) =>
              /\ ServedAsIs(EntryOf(store, yielded.key))
              /\ store' = store
              /\ streams' = streams
        /\ (LookupStep /\ pc' = "returned") =>
              /\ Good(EntryOf(store, yielded.key), request, now)
              /\ emitted' = <<"CacheGet">>
        /\ \A i \in 1..Len(emitted) :
              emitted[i] = "CacheSet" =>
                 \E j \in 1..(i - 1) : emitted[j] = "MakeRequest" ]_vars

\* an entry with an ETag, one second old, served to a request that allows a
\* max-age of 2
C38_Witness ==
    /\ pc = "returned"
    /\ emitted = <<"CacheGet">>
    /\ result.source = "CACHE"
    /\ now = 1
    /\ request.headers = ("cache-control" :> <<"max-age", "=", "2">>)
    /\ "etag" \in DOMAIN result.response.headers
    /\ EntryOf(store, request.url).response.headers = result.response.headers

(***************************************************************************)
(* Further claims checked on SpecThreads                                   *)
(***************************************************************************)
\* thread u has completed a DELETE that the server answered later than it
\* produced this response
InvalidatedSince(u, response) ==
    /\ threads[u].pc = "idle"
    /\ threads[u].method = "DELETE"
    /\ threads[u].exception = "none"
    /\ threads[u].response.status_code = 204
    /\ DateVal(threads[u].response.headers["date"]) > DateVal(response.headers["date"])

\* C39: no thread's CacheSet writes the entry for the URL from a response
\* the server produced before the DELETE that another thread has since
\* completed, CacheDelete included.
C39_NoWriteAfterInvalidation ==
    [][ \A t \in Threads :
          SetStep(t) =>
             ~\E u \in Threads \ {t} : InvalidatedSince(u, threads[t].action.response) ]_vars

====
